---- MODULE Spec2Model ----
(***************************************************************************)
(* caritahub-games: the in-memory room manager (rooms/roomManager.js) and  *)
(* the socket event dispatcher (rooms/socketEvents.js, the revision with   *)
(* Big Two and Bingo), as a state machine.                                 *)
(*                                                                         *)
(* The server is one Node.js event loop: every handler and every timer     *)
(* callback runs to completion, so each is one atomic action here.         *)
(***************************************************************************)
EXTENDS Integers, Sequences, FiniteSets, TLC

\* ------------------------------------------------------------------ universe

\* socket.id of the connections the model follows. A socket id is never
\* reused: a client that comes back does so on another connection.
Conns == {"s1", "s2", "s3"}

\* The connections of the runs that drive engines.
ConnsFew == {"s1", "s2"}

\* Room ids in the order generateRoomId hands them out (ids are fresh).
IdSeq == <<"R1", "R2">>

RoomIds == {IdSeq[i] : i \in 1..Len(IdSeq)}

\* Raw playerName payloads of join_game, as character sequences.
RawNames == { <<"a">>, <<" ", "b", " ">>, <<"c">>, <<" ">> }

\* gameType payloads of join_game.
GameTypes == {"xiangqi", "chess", "chordaidi", "bingo"}

\* Most spectator entries one room holds in the model.
MaxSpectators == 1

\* Most plies on an engine's undo history in the model.
MaxPly == 2

\* Most bingo numbers drawn in one game in the model (the pool holds 75).
MaxCalls == 4

\* Ranks of the Big Two deck in the model (the deck of the code has 13).
NumRanks == 3

\* Most accepted plays and passes of one Big Two game in the model.
MaxCdiMoves == 4

\* Longest cardIds list put against a table in the model.
MaxPlayLen == 6

\* Most times the clock moves between join commands in the model.
MaxTicks == 3

\* Most fresh joins over the limit counted in one window in the model.
MaxOver == 1

\* the longest word whose point value is compared with the scoring table
MaxWordLen == 9

\* the most moves a Xiangqi game is followed for
MaxXiangqiPly == 5

\* the most moves a Chess game is followed for
MaxChessPly == 9

\* the most moves of a Chess game that are made and taken back
MaxUndoPly == 5

NoSocket == "null"

NoRoomId == ""

NameLimit == 30

RequiredCDI == 4

RequiredDefault == 2

SeatCap == 2

CARD_SIZE == 5

PoolSize == 75

CDI_COLORS == <<"south", "west", "north", "east">>

BINGO_COLORS == <<"caller", "p2", "p3", "p4", "p5", "p6", "p7", "p8">>

VARIABLES
    rooms,          \* roomManager.rooms: room id -> room record
    created,        \* number of ids generateRoomId has handed out
    sock,           \* per connection: open?, and socket.data {roomId, color}; data.playerName
                    \* feeds only the texts of emitted events and is left out
    engines,        \* dispatcher's engines map: room id -> engine
    roomGameTypes,  \* dispatcher's roomGameTypes map: room id -> gameType
    crashed,        \* a handler threw: the process is gone
    out,            \* the last handler or callback, for whom it ran, what it emitted in order
    watch,          \* the events whose handlers' emissions `out` records in this run
    cdi,            \* a Big Two engine driven through its interface: the closure of createGame
    ret,            \* what the last call of that engine returned
    trial,          \* a cardIds list put against a table: the two lists and play's verdict
    joinCounts,     \* dispatcher's joinCounts map: ip -> {count, resetAt}
    clock,          \* Date.now() in ms since the server came up, and how often it moved
    admitted,       \* per ip, when the last fresh joins got past checkJoinRate (history)
    bingo,          \* a Bingo engine driven through its interface: the closure of createGame
    bingoRet,       \* what the last callNumber of that engine was given and returned
    boggle,         \* a Boggle engine driven through its interface: the closure of createGame
    boggleRet,      \* what the last submitWord or endRound of that engine was given and returned
    xiangqi,        \* a Xiangqi engine driven through its interface: the closure of createGame
    xiangqiRet,     \* what the last move of that engine was given and returned
    chess,          \* a Chess engine driven through its interface: the closure of createGame
    chessRet,       \* what the last move of that engine was given and returned
    store,          \* leaderboard.js store: <<gameType, playerName>> -> wins
    tally,          \* per room id, the engines started and the recordWin calls made by its handlers (history)
    undoAsked,      \* per room id, the request_undo passed on and not yet answered (history)
    graceTimers     \* the 2 s timers set by disconnect handlers and not yet fired, in the order set

vars == <<rooms, created, sock, engines, roomGameTypes, crashed, out, watch, cdi, ret, trial,
          joinCounts, clock, admitted,
          bingo, bingoRet,
          boggle, boggleRet,
          xiangqi, xiangqiRet,
          chess, chessRet,
          store, tally, undoAsked, graceTimers>>

\* the state of the dispatcher and the room manager
dispatcherVars == <<rooms, created, sock, engines, roomGameTypes, crashed, out, watch>>

\* the state of an engine driven on its own
engineVars == <<cdi, ret>>

\* the state of combo classification driven on its own
comboVars == <<trial>>

\* the state of the join rate limiter; the runs that take the limiter's verdict
\* as an input of join_game leave it out
rateVars == <<joinCounts, clock, admitted>>

\* the state of a Bingo engine driven on its own
bingoVars == <<bingo, bingoRet>>

\* the state of a Boggle engine driven on its own
boggleVars == <<boggle, boggleRet>>

\* the state of a Xiangqi engine driven on its own
xiangqiVars == <<xiangqi, xiangqiRet>>

\* the state of a Chess engine driven on its own
chessVars == <<chess, chessRet>>

\* the leaderboard, the grace timers of disconnects, and the histories kept of
\* a room's games; the runs that do not follow them leave them out
recordVars == <<store, tally, undoAsked, graceTimers>>

\* the state of the engines, the classifier and the limiter driven on their own
standaloneVars == <<engineVars, comboVars, rateVars, bingoVars, boggleVars, xiangqiVars, chessVars>>

\* the state of the parts driven on their own
aloneVars == <<cdi, ret, trial, joinCounts, clock, admitted,
              bingo, bingoRet,
              boggle, boggleRet,
              xiangqi, xiangqiRet,
              chess, chessRet,
              store, tally, undoAsked, graceTimers>>

\* ------------------------------------------------------------------ helpers

Min(a, b) == IF a < b THEN a ELSE b

Max(a, b) == IF a > b THEN a ELSE b

\* Map.delete(k)
MapDelete(m, k) == [x \in (DOMAIN m) \ {k} |-> m[x]]

\* Map.set(k, v)
MapSet(m, k, v) == [x \in (DOMAIN m) \cup {k} |-> IF x = k THEN v ELSE m[x]]

\* Array.prototype.indexOf on a colour list; 0-based, -1 when absent.
IndexOf(list, x) ==
    IF \E i \in 1..Len(list) : list[i] = x
    THEN (CHOOSE i \in 1..Len(list) : list[i] = x /\ \A j \in 1..(i-1) : list[j] # x) - 1
    ELSE -1

\* String.prototype.trim on a character sequence.
RECURSIVE TrimLeft(_)
TrimLeft(s) == IF s # <<>> /\ Head(s) = " " THEN TrimLeft(Tail(s)) ELSE s

RECURSIVE TrimRight(_)
TrimRight(s) ==
    IF s # <<>> /\ s[Len(s)] = " " THEN TrimRight(SubSeq(s, 1, Len(s) - 1)) ELSE s

Trim(s) == TrimRight(TrimLeft(s))

\* playerName.trim().slice(0, 30)
NormaliseName(raw) == SubSeq(Trim(raw), 1, Min(NameLimit, Len(Trim(raw))))

\* !playerName || !playerName.trim()
BlankName(raw) == raw = <<>> \/ Trim(raw) = <<>>

Names == {NormaliseName(raw) : raw \in {x \in RawNames : ~BlankName(x)}}

\* ------------------------------------------------------------------ emissions

ToSock(c, ev, a1, a2) == [kind |-> "sock", id |-> c, ev |-> ev, a1 |-> a1, a2 |-> a2]

ToRoom(r, ev, a1, a2) == [kind |-> "room", id |-> r, ev |-> ev, a1 |-> a1, a2 |-> a2]

\* nothing recorded
NoOut == [ev |-> "", by |-> NoSocket, events |-> <<>>]

\* The handler of event `ev`, run for socket (or timer of room) `by`, emitted
\* `events`. Emissions change no program state; a run records those of the
\* handlers it watches.
Emit(ev, by, events) ==
    /\ out' = IF ev \in watch THEN [ev |-> ev, by |-> by, events |-> events] ELSE NoOut
    /\ watch' = watch

\* ------------------------------------------------------------------ room manager

\* handleJoin's colour set for a gameType
ColorsFor(gameType) ==
    IF gameType = "chess" THEN <<"white", "black">>
    ELSE IF gameType = "chordaidi" THEN CDI_COLORS
    ELSE IF gameType = "bingo" THEN BINGO_COLORS
    ELSE <<"red", "black">>

\* createRoom's fresh record
NewRoom(colors) ==
    [players |-> <<>>, spectators |-> <<>>, colors |-> colors, deleteTimer |-> "null"]

\* room.players.find(p => p.name === name), as an index (0 when none)
SeatOfName(room, name) ==
    IF \E i \in 1..Len(room.players) : room.players[i].name = name
    THEN CHOOSE i \in 1..Len(room.players) :
            /\ room.players[i].name = name
            /\ \A j \in 1..(i-1) : room.players[j].name # name
    ELSE 0

\* room.players.some(p => p.socketId !== null)
HasActive(room) == \E i \in 1..Len(room.players) : room.players[i].socketId # NoSocket

\* joinRoom lines 51-55: a seat is free
SeatFree(room) == Len(room.players) < SeatCap

\* a joinRoom without the find-by-name branch (sensitivity variant of JoinedRoom)
JoinedRoomNoRebind(room, c, name) ==
    LET cleared == [room EXCEPT !.deleteTimer = "null"]
    IN  IF SeatFree(room)
        THEN [cleared EXCEPT !.players = Append(@,
                [socketId |-> c, name |-> name, color |-> room.colors[Len(room.players) + 1]])]
        ELSE [cleared EXCEPT !.spectators = Append(@, [socketId |-> c, name |-> name])]

\* joinRoom on a room that exists: the room afterwards
JoinedRoom(room, c, name) ==
    LET cleared == [room EXCEPT !.deleteTimer = "null"]
        i == SeatOfName(room, name)
    IN  IF i # 0
        THEN [cleared EXCEPT !.players[i].socketId = c]
        ELSE IF SeatFree(room)
        THEN [cleared EXCEPT !.players = Append(@,
                [socketId |-> c, name |-> name, color |-> room.colors[Len(room.players) + 1]])]
        ELSE [cleared EXCEPT !.spectators = Append(@, [socketId |-> c, name |-> name])]

\* joinRoom's result.color
JoinColor(room, name) ==
    LET i == SeatOfName(room, name)
    IN  IF i # 0 THEN room.players[i].color
        ELSE IF SeatFree(room) THEN room.colors[Len(room.players) + 1]
        ELSE "spectator"

\* joinRoom's result.reconnected
JoinReconnected(room, name) == SeatOfName(room, name) # 0

\* the rooms of the table in Map iteration (insertion) order
RoomOrder == SelectSeq(IdSeq, LAMBDA r : r \in DOMAIN rooms)

SeatedIn(room, c) == \E i \in 1..Len(room.players) : room.players[i].socketId = c

WatchingIn(room, c) == \E i \in 1..Len(room.spectators) : room.spectators[i].socketId = c

\* leaveRoom's loop: the first room, in iteration order, holding the socket
LeaveTarget(c) ==
    LET hits == SelectSeq(RoomOrder,
                    LAMBDA r : SeatedIn(rooms[r], c) \/ WatchingIn(rooms[r], c))
    IN  IF hits = <<>> THEN NoRoomId ELSE Head(hits)

\* findIndex(p => p.socketId === socketId) over a list of entries, 1-based
FirstWithSocket(list, c) ==
    CHOOSE i \in 1..Len(list) : list[i].socketId = c /\ \A j \in 1..(i-1) : list[j].socketId # c

\* splice(idx, 1)
RemoveAt(list, i) == SubSeq(list, 1, i - 1) \o SubSeq(list, i + 1, Len(list))

\* scheduleRoomCleanup: replaces any pending timer by a new one
ScheduleRoomCleanup(room) == [room EXCEPT !.deleteTimer = "pending"]

\* leaveRoom on the room it found: the room afterwards
LeftRoom(room, c) ==
    IF SeatedIn(room, c)
    THEN ScheduleRoomCleanup(
            [room EXCEPT !.players[FirstWithSocket(room.players, c)].socketId = NoSocket])
    ELSE [room EXCEPT !.spectators = RemoveAt(@, FirstWithSocket(room.spectators, c))]

\* a timer callback without the hasActive check (sensitivity variant of
\* CleanupDeletes)
CleanupDeletesAlways(room) == TRUE

\* the deletion timer's callback decides to delete
CleanupDeletes(room) == ~HasActive(room)

\* ------------------------------------------------------------------ initial state

\* a socket on 'connection': open, socket.data empty
FreshSocket == [open |-> TRUE, roomId |-> NoRoomId, color |-> ""]

\* no engine is driven on its own
NoGame == [hands |-> << >>]

\* no list is put against a table
NoTrial == [table |-> <<>>, cardIds |-> <<>>, verdict |-> ""]

\* no call has returned
NoRet == [op |-> "", ok |-> FALSE, reason |-> ""]

\* a socket after 'disconnect': no handler of it runs again, its data is garbage
ClosedSocket == [open |-> FALSE, roomId |-> NoRoomId, color |-> ""]

\* no Bingo engine is made
NoBingo == [pool |-> <<>>]

\* no callNumber has returned
NoBingoRet == [seat |-> -1, ok |-> FALSE, reason |-> "", number |-> 0, newWinners |-> <<>>]

InitBingoIdle ==
    /\ bingo = NoBingo
    /\ bingoRet = NoBingoRet

\* no Boggle engine is made
NoBoggle == [board |-> <<>>]

\* no call of the Boggle engine has returned
NoBoggleRet == [op |-> "", seat |-> -1, ok |-> FALSE, reason |-> "", word |-> <<>>,
                scores |-> <<>>, words |-> <<>>]

InitBoggleIdle ==
    /\ boggle = NoBoggle
    /\ boggleRet = NoBoggleRet

\* no Xiangqi or Chess engine is made
NoBoard == [turn |-> ""]

\* no move of a Xiangqi or Chess engine has returned
NoMoveRet ==
    [op |-> "", from |-> <<>>, to |-> <<>>, promotion |-> "null", ok |-> FALSE, reason |-> ""]

InitXiangqiIdle ==
    /\ xiangqi = NoBoard
    /\ xiangqiRet = NoMoveRet

InitChessIdle ==
    /\ chess = NoBoard
    /\ chessRet = NoMoveRet

\* store = new Map(), no timer set, nothing started or asked
InitRecords ==
    /\ store = << >>
    /\ tally = << >>
    /\ undoAsked = << >>
    /\ graceTimers = <<>>

\* joinCounts = new Map(), at server start
InitLimiter ==
    /\ joinCounts = << >>
    /\ clock = [now |-> 0, ticks |-> 0]
    /\ admitted = << >>

InitDispatcher(conns, watched) ==
    /\ rooms = << >>
    /\ created = 0
    /\ sock = [c \in conns |-> FreshSocket]
    /\ engines = << >>
    /\ roomGameTypes = << >>
    /\ crashed = FALSE
    /\ out = NoOut
    /\ watch = watched

InitWith(conns, watched) ==
    /\ InitDispatcher(conns, watched)
    /\ cdi = NoGame
    /\ ret = NoRet
    /\ trial = NoTrial
    /\ InitLimiter
    /\ InitRecords
    /\ InitChessIdle
    /\ InitXiangqiIdle
    /\ InitBoggleIdle
    /\ InitBingoIdle

\* ------------------------------------------------------------------ join_game

\* handleJoin past the rate limiter and the name check, on target room `target`
\* of table `tbl` (the table after a possible createRoom)
JoinInto(c, target, tbl, types, name) ==
    IF target \notin DOMAIN tbl
    THEN /\ Emit("join_game", c, <<ToSock(c, "error", "Room not found", "")>>)
         /\ UNCHANGED <<rooms, created, sock, roomGameTypes>>
    ELSE LET room == tbl[target]
             color == JoinColor(room, name)
             rec == IF JoinReconnected(room, name) THEN "true" ELSE "false"
             after == JoinedRoom(room, c, name)
         IN  /\ rooms' = MapSet(tbl, target, after)
             /\ roomGameTypes' = types
             /\ created' = created + (IF target \in DOMAIN rooms THEN 0 ELSE 1)
             /\ sock' = [sock EXCEPT ![c].roomId = target, ![c].color = color]
             /\ Emit("join_game", c,
                    <<ToSock(c, "joined", color, rec)>>
                    \o (IF target \in DOMAIN engines
                        THEN <<ToSock(c, "game_state", color, "")>> ELSE <<>>)
                    \o <<ToRoom(target, "room_update", "", "")>>)

\* a handleJoin that creates the room before it looks at the name
\* (sensitivity variant of HandleJoin)
HandleJoinCreatesFirst(c, roomId, raw, reconnect, gameType, rateOk, maxRooms) ==
    /\ ~crashed
    /\ sock[c].open
    /\ UNCHANGED <<engines, crashed>>
    /\ IF ~reconnect /\ ~rateOk
       THEN /\ Emit("join_game", c, <<ToSock(c, "error", "Too many join attempts", "")>>)
            /\ UNCHANGED <<rooms, created, sock, roomGameTypes>>
       ELSE IF roomId = NoRoomId
       THEN /\ created < maxRooms
            /\ LET fresh == IdSeq[created + 1]
               IN  IF BlankName(raw)
                   THEN /\ Emit("join_game", c, <<ToSock(c, "error", "Please enter your name.", "")>>)
                        /\ rooms' = MapSet(rooms, fresh, NewRoom(ColorsFor(gameType)))
                        /\ roomGameTypes' = MapSet(roomGameTypes, fresh, gameType)
                        /\ created' = created + 1
                        /\ UNCHANGED sock
                   ELSE JoinInto(c, fresh,
                                 MapSet(rooms, fresh, NewRoom(ColorsFor(gameType))),
                                 MapSet(roomGameTypes, fresh, gameType),
                                 NormaliseName(raw))
       ELSE IF BlankName(raw)
       THEN /\ Emit("join_game", c, <<ToSock(c, "error", "Please enter your name.", "")>>)
            /\ UNCHANGED <<rooms, created, sock, roomGameTypes>>
       ELSE /\ roomId \in DOMAIN rooms =>
                \/ SeatOfName(rooms[roomId], NormaliseName(raw)) # 0
                \/ SeatFree(rooms[roomId])
                \/ Len(rooms[roomId].spectators) < MaxSpectators
            /\ JoinInto(c, roomId, rooms, roomGameTypes, NormaliseName(raw))

HandleJoin(c, roomId, raw, reconnect, gameType, rateOk, maxRooms) ==
    /\ ~crashed
    /\ sock[c].open
    /\ UNCHANGED <<engines, crashed>>
    /\ IF ~reconnect /\ ~rateOk
       THEN /\ Emit("join_game", c, <<ToSock(c, "error", "Too many join attempts", "")>>)
            /\ UNCHANGED <<rooms, created, sock, roomGameTypes>>
       ELSE IF BlankName(raw)
       THEN /\ Emit("join_game", c, <<ToSock(c, "error", "Please enter your name.", "")>>)
            /\ UNCHANGED <<rooms, created, sock, roomGameTypes>>
       ELSE IF roomId = NoRoomId
       THEN /\ created < maxRooms
            /\ LET fresh == IdSeq[created + 1]
               IN  JoinInto(c, fresh,
                            MapSet(rooms, fresh, NewRoom(ColorsFor(gameType))),
                            MapSet(roomGameTypes, fresh, gameType),
                            NormaliseName(raw))
       ELSE /\ roomId \in DOMAIN rooms =>
                \/ SeatOfName(rooms[roomId], NormaliseName(raw)) # 0
                \/ SeatFree(rooms[roomId])
                \/ Len(rooms[roomId].spectators) < MaxSpectators
            /\ JoinInto(c, roomId, rooms, roomGameTypes, NormaliseName(raw))

\* ------------------------------------------------------------------ disconnect

Disconnect(c) ==
    /\ ~crashed
    /\ sock[c].open
    /\ sock' = [sock EXCEPT ![c] = ClosedSocket]
    /\ Emit("disconnect", c, <<>>)
    /\ LET r == LeaveTarget(c)
       IN  rooms' = IF r = NoRoomId THEN rooms ELSE [rooms EXCEPT ![r] = LeftRoom(@, c)]
    /\ UNCHANGED <<created, engines, roomGameTypes, crashed>>

\* ------------------------------------------------------------------ deletion timer

DeleteTimerFire(r) ==
    /\ ~crashed
    /\ r \in DOMAIN rooms
    /\ rooms[r].deleteTimer = "pending"
    /\ Emit("delete_timer", r, <<>>)
    /\ rooms' = IF CleanupDeletes(rooms[r])
                THEN MapDelete(rooms, r)
                ELSE [rooms EXCEPT ![r].deleteTimer = "fired"]
    /\ UNCHANGED <<created, sock, engines, roomGameTypes, crashed>>

\* ------------------------------------------------------------------ engines
\* The dispatcher drives an engine through its interface. The board, the hands
\* and the cards are not carried here: an engine is its factory (kind), the
\* side to move, the length of its undo history and what isGameOver() /
\* inCheck() say of the position; what move(), play() and callNumber() decide
\* from the board is an input of the handler's action.

\* createXiangqiGame / createChessGame / createChordaidiGame / createBingoGame
TwoPlayerKinds == {"chess", "xiangqi"}

\* turn() is 'w' at the start of chess and xiangqi, a seat number in Big Two
NewEngine(kind) ==
    [kind |-> kind,
     turn |-> IF kind \in TwoPlayerKinds THEN "w" ELSE IF kind = "chordaidi" THEN "seat" ELSE "none",
     hist |-> 0, status |-> "playing", called |-> 0]

\* the engine exposes turn()
HasTurn(e) == e.kind \in TwoPlayerKinds \/ e.kind = "chordaidi"

\* engine.isGameOver()
EngineOver(e) == e.status # "playing"

\* verdicts of move(): ok, or one of its refusals
MoveVerdicts ==
    {"ok", "No piece at source", "Not your piece", "Illegal move", "Move leaves king in check"}

\* what the position after an accepted move is: play goes on, the side to
\* move is mated, or it has no legal move without being in check
PositionKinds == {"playing", "mate", "stale"}

\* move() accepted: push the old state, apply, flip the turn
Moved(e, after) ==
    [e EXCEPT !.turn = IF e.turn = "w" THEN "b" ELSE "w", !.hist = e.hist + 1, !.status = after]

\* undo() with a non-empty history: pop one ply (no move is accepted from a
\* finished position, so the popped position is one where play goes on)
Undone(e) ==
    [e EXCEPT !.turn = IF e.turn = "w" THEN "b" ELSE "w", !.hist = e.hist - 1, !.status = "playing"]

\* roomGameTypes.get(roomId) || 'xiangqi'
GameTypeOf(r) == IF r \in DOMAIN roomGameTypes THEN roomGameTypes[r] ELSE "xiangqi"

\* start_game: the engine factory chosen for a gameType
FactoryFor(gameType) ==
    IF gameType \in {"chess", "chordaidi", "bingo"} THEN gameType ELSE "xiangqi"

\* start_game: requiredPlayers
RequiredPlayers(gameType) == IF gameType = "chordaidi" THEN RequiredCDI ELSE RequiredDefault

\* make_move: const firstColor = gameType === 'chess' ? 'white' : 'red'
FirstColor(gameType) == IF gameType = "chess" THEN "white" ELSE "red"

\* a turn check that guards the first side only (sensitivity variant of
\* NotYourTurn)
NotYourTurnFirstOnly(engineTurn, playerColor, firstColor) ==
    engineTurn = "w" /\ playerColor # firstColor

\* make_move lines 688-689: the sender's colour is not the side to move
NotYourTurn(engineTurn, playerColor, firstColor) ==
    \/ engineTurn = "w" /\ playerColor # firstColor
    \/ engineTurn = "b" /\ playerColor # "black"

\* gameStatePayload's winner, as the colour announced
PayloadWinner(e) ==
    IF ~EngineOver(e) THEN "null"
    ELSE IF e.kind = "chess"
    THEN (IF e.status = "mate" THEN (IF e.turn = "w" THEN "black" ELSE "white") ELSE "draw")
    ELSE (IF e.turn = "w" THEN "black" ELSE "red")

\* an uncaught TypeError in a handler ends the process, and with it every
\* socket and all of the in-memory state
Crash(ev, by) ==
    /\ crashed' = TRUE
    /\ Emit(ev, by, <<>>)
    /\ rooms' = << >>
    /\ engines' = << >>
    /\ roomGameTypes' = << >>
    /\ sock' = [c \in DOMAIN sock |-> ClosedSocket]
    /\ UNCHANGED created

\* a handler that returns having changed nothing
Reject(ev, by, events) ==
    /\ Emit(ev, by, events)
    /\ UNCHANGED <<rooms, created, sock, engines, roomGameTypes, crashed>>

\* ------------------------------------------------------------------ start_game

StartGame(c) ==
    /\ ~crashed
    /\ sock[c].open
    /\ LET r == sock[c].roomId
       IN  IF r = NoRoomId \/ r \notin DOMAIN rooms \/ r \in DOMAIN engines
           THEN Reject("start_game", c, <<>>)
           ELSE IF Len(rooms[r].players) < RequiredPlayers(GameTypeOf(r))
           THEN Reject("start_game", c, <<ToSock(c, "error", "Waiting for more player(s)", "")>>)
           ELSE /\ engines' = MapSet(engines, r, NewEngine(FactoryFor(GameTypeOf(r))))
                /\ Emit("start_game", c,
                        IF GameTypeOf(r) = "chordaidi"
                        THEN [i \in 1..Len(SelectSeq(rooms[r].players,
                                                 LAMBDA p : p.socketId # NoSocket)) |->
                                ToSock(SelectSeq(rooms[r].players,
                                           LAMBDA p : p.socketId # NoSocket)[i].socketId,
                                       "game_started", "", "")]
                        ELSE <<ToRoom(r, "game_started", "", "")>>)
                /\ UNCHANGED <<rooms, created, sock, roomGameTypes, crashed>>

\* ------------------------------------------------------------------ make_move

MakeMove(c, verdict, after) ==
    /\ ~crashed
    /\ sock[c].open
    /\ LET r == sock[c].roomId
       IN  IF r = NoRoomId
           THEN Reject("make_move", c, <<>>)
           ELSE IF r \notin DOMAIN engines
           THEN Reject("make_move", c, <<ToSock(c, "invalid_move", "Game not started", "")>>)
           ELSE IF r \notin DOMAIN rooms
           THEN Reject("make_move", c, <<>>)
           ELSE IF ~HasTurn(engines[r])
           THEN Crash("make_move", c)
           ELSE IF NotYourTurn(engines[r].turn, sock[c].color, FirstColor(GameTypeOf(r)))
           THEN Reject("make_move", c, <<ToSock(c, "invalid_move", "Not your turn", "")>>)
           ELSE IF EngineOver(engines[r])
           THEN Reject("make_move", c, <<ToSock(c, "invalid_move", "Game is over", "")>>)
           ELSE IF engines[r].kind \notin TwoPlayerKinds
           THEN Crash("make_move", c)
           ELSE IF verdict # "ok"
           THEN Reject("make_move", c, <<ToSock(c, "invalid_move", verdict, "")>>)
           ELSE /\ engines[r].hist < MaxPly
                /\ engines' = MapSet(engines, r, Moved(engines[r], after))
                /\ Emit("make_move", c,
                        <<ToRoom(r, "game_state", PayloadWinner(Moved(engines[r], after)), "")>>)
                /\ UNCHANGED <<rooms, created, sock, roomGameTypes, crashed>>

\* ------------------------------------------------------------------ approve_undo

ApproveUndo(c) ==
    /\ ~crashed
    /\ sock[c].open
    /\ LET r == sock[c].roomId
       IN  IF r = NoRoomId \/ r \notin DOMAIN engines \/ r \notin DOMAIN rooms
           THEN Reject("approve_undo", c, <<>>)
           ELSE IF engines[r].kind = "bingo"
           THEN Crash("approve_undo", c)
           ELSE IF engines[r].kind = "chordaidi" \/ engines[r].hist = 0
           THEN Reject("approve_undo", c, <<>>)
           ELSE /\ engines' = MapSet(engines, r, Undone(engines[r]))
                /\ Emit("approve_undo", c, <<ToRoom(r, "game_state", "null", "")>>)
                /\ UNCHANGED <<rooms, created, sock, roomGameTypes, crashed>>

\* ------------------------------------------------------------------ resign

\* room.players.find(p => p.color !== socket.data.color)?.color || null
ResignWinner(room, color) ==
    LET others == SelectSeq(room.players, LAMBDA p : p.color # color)
    IN  IF others = <<>> THEN "null" ELSE Head(others).color

Resign(c) ==
    /\ ~crashed
    /\ sock[c].open
    /\ LET r == sock[c].roomId
       IN  IF r = NoRoomId \/ r \notin DOMAIN rooms
           THEN Reject("resign", c, <<>>)
           ELSE /\ engines' = MapDelete(engines, r)
                /\ roomGameTypes' = MapDelete(roomGameTypes, r)
                /\ Emit("resign", c,
                        <<ToRoom(r, "game_over", ResignWinner(rooms[r], sock[c].color), "resigned")>>)
                /\ UNCHANGED <<rooms, created, sock, crashed>>

\* ------------------------------------------------------------------ cdi_play, cdi_pass

\* broadcastCDI: one personalised game_state per seat that has a socket
BroadcastCDI(room) ==
    LET live == SelectSeq(room.players, LAMBDA p : p.socketId # NoSocket)
    IN  [i \in 1..Len(live) |-> ToSock(live[i].socketId, "game_state", live[i].color, "")]

\* verdicts of play(): ok, or one of its refusals
PlayVerdicts ==
    {"ok", "Not your turn", "Card not in hand", "Invalid combination", "Does not beat the table"}

CdiPlay(c, verdict, emptied) ==
    /\ ~crashed
    /\ sock[c].open
    /\ LET r == sock[c].roomId
       IN  IF r = NoRoomId
           THEN Reject("cdi_play", c, <<>>)
           ELSE IF r \notin DOMAIN engines
           THEN Reject("cdi_play", c, <<ToSock(c, "invalid_move", "Game not started", "")>>)
           ELSE IF r \notin DOMAIN rooms
           THEN Reject("cdi_play", c, <<>>)
           ELSE IF engines[r].kind # "chordaidi"
           THEN Crash("cdi_play", c)
           ELSE IF verdict # "ok"
           THEN Reject("cdi_play", c, <<ToSock(c, "invalid_move", verdict, "")>>)
           ELSE IF ~emptied
           THEN Reject("cdi_play", c, BroadcastCDI(rooms[r]))
           ELSE /\ engines' = MapDelete(engines, r)
                /\ roomGameTypes' = MapDelete(roomGameTypes, r)
                /\ Emit("cdi_play", c,
                        BroadcastCDI(rooms[r]) \o <<ToRoom(r, "game_over", sock[c].color, "")>>)
                /\ UNCHANGED <<rooms, created, sock, crashed>>

CdiPass(c, verdict) ==
    /\ ~crashed
    /\ sock[c].open
    /\ LET r == sock[c].roomId
       IN  IF r = NoRoomId
           THEN Reject("cdi_pass", c, <<>>)
           ELSE IF r \notin DOMAIN engines
           THEN Reject("cdi_pass", c, <<ToSock(c, "invalid_move", "Game not started", "")>>)
           ELSE IF r \notin DOMAIN rooms
           THEN Reject("cdi_pass", c, <<>>)
           ELSE IF engines[r].kind # "chordaidi"
           THEN Crash("cdi_pass", c)
           ELSE IF verdict # "ok"
           THEN Reject("cdi_pass", c, <<ToSock(c, "invalid_move", verdict, "")>>)
           ELSE Reject("cdi_pass", c, BroadcastCDI(rooms[r]))

\* ------------------------------------------------------------------ bingo_call

\* a line through the FREE centre needs CARD_SIZE - 1 called numbers: no
\* seat can complete a pattern on an earlier call
CanWinAt(called) == called >= CARD_SIZE - 1

BingoCall(c, wins) ==
    /\ ~crashed
    /\ sock[c].open
    /\ LET r == sock[c].roomId
       IN  IF r = NoRoomId
           THEN Reject("bingo_call", c, <<>>)
           ELSE IF r \notin DOMAIN engines
           THEN Reject("bingo_call", c, <<ToSock(c, "error", "Game not started", "")>>)
           ELSE IF r \notin DOMAIN rooms
           THEN Reject("bingo_call", c, <<>>)
           ELSE IF engines[r].kind # "bingo"
           THEN Crash("bingo_call", c)
           ELSE IF IndexOf(BINGO_COLORS, sock[c].color) # 0
           THEN Reject("bingo_call", c,
                       <<ToSock(c, "error", "Only the caller can draw numbers", "")>>)
           ELSE IF EngineOver(engines[r])
           THEN Reject("bingo_call", c, <<ToSock(c, "error", "Game is over", "")>>)
           ELSE IF engines[r].called = PoolSize
           THEN Reject("bingo_call", c, <<ToSock(c, "error", "All numbers have been called!", "")>>)
           ELSE /\ engines[r].called < MaxCalls
                /\ wins => CanWinAt(engines[r].called + 1)
                /\ IF wins
                   THEN /\ engines' = MapDelete(engines, r)
                        /\ roomGameTypes' = MapDelete(roomGameTypes, r)
                        /\ Emit("bingo_call", c, <<ToRoom(r, "game_state", "over", ""),
                                                ToRoom(r, "game_over", "bingo", "")>>)
                   ELSE /\ engines' = MapSet(engines, r,
                                         [engines[r] EXCEPT !.called = @ + 1])
                        /\ roomGameTypes' = roomGameTypes
                        /\ Emit("bingo_call", c, <<ToRoom(r, "game_state", "playing", "")>>)
                /\ UNCHANGED <<rooms, created, sock, crashed>>

\* ------------------------------------------------------------------ Big Two engine
\* engine/chordaidi.js. A card is its id: rank id \div 4 (3 lowest, 2
\* highest), suit id % 4 (D < C < H < S); cardValue(card) is the id again.

SuitCount == 4

\* makeDeck: the deck has NumRanks ranks of four suits (13 ranks in the code)
DeckSize == SuitCount * NumRanks

Cards == 0..(DeckSize - 1)

Seats == 0..3

\* no seat: tableOwner and winnerSeat when null
NoSeat == -1

rankValue(id) == id \div SuitCount

suitValue(id) == id % SuitCount

\* Array.prototype.sort((a, b) => a - b) on a list of ids
RECURSIVE SortIds(_)
SortIds(ids) ==
    IF ids = <<>> THEN <<>>
    ELSE LET m == CHOOSE x \in {ids[i] : i \in 1..Len(ids)} :
                      \A i \in 1..Len(ids) : x <= ids[i]
             k == CHOOSE i \in 1..Len(ids) : ids[i] = m /\ \A j \in 1..(i-1) : ids[j] # m
         IN  <<m>> \o SortIds(RemoveAt(ids, k))

\* classifyCombo / play returning null: no combo
NoCombo == [type |-> "none", cards |-> <<>>, key |-> -1]

\* classifyFiveCard, on five ids sorted by value
classifyFiveCard(cards) ==
    LET ranks == [i \in 1..Len(cards) |-> rankValue(cards[i])]
        isFlush == \A i \in 1..Len(cards) : suitValue(cards[i]) = suitValue(cards[1])
        isStraight == \A i \in 2..Len(cards) : ranks[i] = ranks[i-1] + 1
        countOf(r) == Cardinality({i \in 1..Len(cards) : ranks[i] = r})
        distinct == {ranks[i] : i \in 1..Len(cards)}
        top == CHOOSE r \in distinct : \A q \in distinct : countOf(q) <= countOf(r)
        second == IF distinct = {top} THEN 0
                  ELSE LET rest == distinct \ {top}
                       IN  countOf(CHOOSE r \in rest : \A q \in rest : countOf(q) <= countOf(r))
        highest == cards[Len(cards)]
    IN  IF isFlush /\ isStraight THEN [type |-> "straightflush", cards |-> cards, key |-> highest]
        ELSE IF countOf(top) = 4 THEN [type |-> "quads", cards |-> cards, key |-> highest]
        ELSE IF countOf(top) = 3 /\ second = 2
        THEN [type |-> "fullhouse", cards |-> cards, key |-> highest]
        ELSE IF isFlush THEN [type |-> "flush", cards |-> cards, key |-> highest]
        ELSE IF isStraight THEN [type |-> "straight", cards |-> cards, key |-> highest]
        ELSE NoCombo

classifyCombo(cardIds) ==
    LET cards == SortIds(cardIds)
        n == Len(cards)
    IN  IF n = 0 THEN NoCombo
        ELSE IF n = 1 THEN [type |-> "single", cards |-> cards, key |-> cards[1]]
        ELSE IF n = 2
        THEN (IF rankValue(cards[1]) = rankValue(cards[2])
              THEN [type |-> "pair", cards |-> cards, key |-> cards[2]] ELSE NoCombo)
        ELSE IF n = 3
        THEN (IF rankValue(cards[1]) = rankValue(cards[2])
                 /\ rankValue(cards[2]) = rankValue(cards[3])
              THEN [type |-> "triple", cards |-> cards, key |-> cards[3]] ELSE NoCombo)
        ELSE IF n = 5 THEN classifyFiveCard(cards)
        ELSE NoCombo

FiveCardTypes == {"straight", "flush", "fullhouse", "quads", "straightflush"}

\* FIVE_CARD_RANK; undefined for the other types
FIVE_CARD_RANK(type) ==
    CASE type = "straight" -> 0
      [] type = "flush" -> 1
      [] type = "fullhouse" -> 2
      [] type = "quads" -> 3
      [] type = "straightflush" -> 4
      [] OTHER -> -1

\* a beats that lets an equal key through (sensitivity variant of beats)
beatsOrTies(incoming, table) ==
    IF incoming = NoCombo \/ table = NoCombo THEN FALSE
    ELSE IF table.type \in {"single", "pair", "triple"}
    THEN incoming.type = table.type /\ incoming.key >= table.key
    ELSE IF table.type \in FiveCardTypes
    THEN IF incoming.type \notin FiveCardTypes THEN FALSE
         ELSE IF FIVE_CARD_RANK(incoming.type) # FIVE_CARD_RANK(table.type)
         THEN FIVE_CARD_RANK(incoming.type) > FIVE_CARD_RANK(table.type)
         ELSE incoming.key >= table.key
    ELSE FALSE

beats(incoming, table) ==
    IF incoming = NoCombo \/ table = NoCombo THEN FALSE
    ELSE IF table.type \in {"single", "pair", "triple"}
    THEN incoming.type = table.type /\ incoming.key > table.key
    ELSE IF table.type \in FiveCardTypes
    THEN IF incoming.type \notin FiveCardTypes THEN FALSE
         ELSE IF FIVE_CARD_RANK(incoming.type) # FIVE_CARD_RANK(table.type)
         THEN FIVE_CARD_RANK(incoming.type) > FIVE_CARD_RANK(table.type)
         ELSE incoming.key > table.key
    ELSE FALSE

\* deal(): card i of the shuffled deck goes to hand i % 4, each hand sorted
deal(deck) ==
    [s \in Seats |->
        SortIds(SelectSeq(deck, LAMBDA id : \E p \in 1..Len(deck) :
                                     deck[p] = id /\ (p - 1) % 4 = s))]

InHand(hand, id) == \E i \in 1..Len(hand) : hand[i] = id

\* createGame(): the engine on the hands dealt
createGame(hands) ==
    [hands |-> hands,
     currentSeat |-> CHOOSE s \in Seats : InHand(hands[s], 0),
     passCount |-> 0,
     tableCombo |-> NoCombo,
     tableOwner |-> NoSeat,
     roundFirst |-> TRUE,
     winnerSeat |-> NoSeat,
     history |-> <<>>]

isGameOver(e) == e.winnerSeat # NoSeat

\* a turn that does not move on (sensitivity variant of nextSeat)
nextSeatSame(s) == s % 4

nextSeat(s) == (s + 1) % 4

\* hand.splice(hand.indexOf(id), 1): indexOf is -1 for an id that is not in the
\* hand (any more), and splice(-1, 1) removes the last element
SpliceId(hand, id) ==
    IF InHand(hand, id) THEN RemoveAt(hand, IndexOf(hand, id) + 1)
    ELSE IF hand = <<>> THEN hand
    ELSE SubSeq(hand, 1, Len(hand) - 1)

\* cardIds.forEach(id => hands[seat].splice(...))
RECURSIVE SpliceAll(_, _)
SpliceAll(hand, cardIds) ==
    IF cardIds = <<>> THEN hand
    ELSE SpliceAll(SpliceId(hand, Head(cardIds)), Tail(cardIds))

\* { ok: false, reason } with the engine as the call left it
Refused(e, reason) == [ok |-> FALSE, reason |-> reason, e |-> e]

\* { ok: true }
Accepted(e) == [ok |-> TRUE, reason |-> "", e |-> e]

\* the reason 'First play must include 3♦', in ASCII
FirstPlayReason == "First play must include 3d"

\* a first play that need not hold card 0 (sensitivity variant of LacksFirstCard)
LacksFirstCardNever(cardIds) == FALSE

\* play: !cardIds.includes(0)
LacksFirstCard(cardIds) == ~InHand(cardIds, 0)

\* a win declared one card early (sensitivity variant of HandOut)
HandOutEarly(hand) == Len(hand) <= 1

\* play: hands[seat].length === 0
HandOut(hand) == Len(hand) = 0

\* play(seat, cardIds): the result and the engine afterwards
play(e, seat, cardIds) ==
    IF isGameOver(e) THEN Refused(e, "Game over")
    ELSE IF seat # e.currentSeat THEN Refused(e, "Not your turn")
    ELSE IF \E i \in 1..Len(cardIds) : ~InHand(e.hands[seat], cardIds[i])
    THEN Refused(e, "Card not in hand")
    ELSE IF classifyCombo(cardIds) = NoCombo THEN Refused(e, "Invalid combination")
    ELSE IF e.roundFirst /\ LacksFirstCard(cardIds) THEN Refused(e, FirstPlayReason)
    ELSE LET e1 == [e EXCEPT !.roundFirst = FALSE]
             combo == classifyCombo(cardIds)
         IN  IF e1.tableCombo # NoCombo /\ ~beats(combo, e1.tableCombo)
             THEN Refused(e1, "Does not beat the table")
             ELSE LET e2 == [e1 EXCEPT !.hands[seat] = SpliceAll(@, cardIds),
                                       !.tableCombo = combo,
                                       !.tableOwner = seat,
                                       !.passCount = 0,
                                       !.history = Append(@, [seat |-> seat, cardIds |-> cardIds,
                                                              pass |-> FALSE])]
                  IN  IF HandOut(e2.hands[seat])
                      THEN Accepted([e2 EXCEPT !.winnerSeat = seat])
                      ELSE Accepted([e2 EXCEPT !.currentSeat = nextSeat(seat)])

\* a pass whose third in a row hands the turn back but leaves the combo on
\* the table (sensitivity variant of passFixed)
passTableKept(e, seat) ==
    IF isGameOver(e) THEN Refused(e, "Game over")
    ELSE IF seat # e.currentSeat THEN Refused(e, "Not your turn")
    ELSE IF e.tableCombo = NoCombo THEN Refused(e, "Cannot pass on an empty table")
    ELSE LET owner == e.tableOwner
             e1 == [e EXCEPT !.history = Append(@, [seat |-> seat, cardIds |-> <<>>, pass |-> TRUE]),
                             !.passCount = @ + 1,
                             !.currentSeat = nextSeat(seat)]
         IN  IF e1.passCount = 3
             THEN Accepted([e1 EXCEPT !.passCount = 0,
                                      !.currentSeat = owner,
                                      !.tableOwner = NoSeat])
             ELSE Accepted(e1)

\* pass(seat), which the engine exports as passFixed
passFixed(e, seat) ==
    IF isGameOver(e) THEN Refused(e, "Game over")
    ELSE IF seat # e.currentSeat THEN Refused(e, "Not your turn")
    ELSE IF e.tableCombo = NoCombo THEN Refused(e, "Cannot pass on an empty table")
    ELSE LET owner == e.tableOwner
             e1 == [e EXCEPT !.history = Append(@, [seat |-> seat, cardIds |-> <<>>, pass |-> TRUE]),
                             !.passCount = @ + 1,
                             !.currentSeat = nextSeat(seat)]
         IN  IF e1.passCount = 3
             THEN Accepted([e1 EXCEPT !.tableCombo = NoCombo,
                                      !.passCount = 0,
                                      !.currentSeat = owner,
                                      !.tableOwner = NoSeat])
             ELSE Accepted(e1)

\* a payload builder that hands out the hand of the seat to act (sensitivity
\* variant of chordaidiPayload)
chordaidiPayloadOfTurn(e, myColor) ==
    [myHand |-> e.hands[e.currentSeat],
     handCounts |-> [s \in Seats |-> Len(e.hands[s])],
     currentSeat |-> e.currentSeat,
     tableCombo |-> [type |-> e.tableCombo.type, cardIds |-> e.tableCombo.cards],
     tableOwner |-> e.tableOwner,
     passCount |-> e.passCount,
     isGameOver |-> isGameOver(e),
     winner |-> e.winnerSeat]

\* chordaidiPayload: the card-bearing and public engine fields of the payload
\* built for a receiver of colour myColor (players, the room's seat list,
\* carries no card)
chordaidiPayload(e, myColor) ==
    LET mySeat == IndexOf(CDI_COLORS, myColor)
    IN  [myHand |-> IF mySeat >= 0 THEN e.hands[mySeat] ELSE <<>>,
         handCounts |-> [s \in Seats |-> Len(e.hands[s])],
         currentSeat |-> e.currentSeat,
         tableCombo |-> [type |-> e.tableCombo.type, cardIds |-> e.tableCombo.cards],
         tableOwner |-> e.tableOwner,
         passCount |-> e.passCount,
         isGameOver |-> isGameOver(e),
         winner |-> e.winnerSeat]

\* ------------------------------------------------------------------ specification

\* join_game payloads: a create (no roomId), a join of a named room, and a
\* fresh join the rate limiter turns away
JoinStep(types, maxRooms) ==
    /\ \E c \in DOMAIN sock, raw \in RawNames :
        \/ \E gameType \in types :
              HandleJoin(c, NoRoomId, raw, FALSE, gameType, TRUE, maxRooms)
        \/ \E roomId \in {IdSeq[i] : i \in 1..maxRooms} :
              HandleJoin(c, roomId, raw, TRUE, "xiangqi", FALSE, maxRooms)
        \/ HandleJoin(c, NoRoomId, raw, FALSE, "xiangqi", FALSE, maxRooms)
    /\ UNCHANGED aloneVars

DisconnectStep == (\E c \in DOMAIN sock : Disconnect(c)) /\ UNCHANGED aloneVars

TimerStep == (\E r \in RoomIds : DeleteTimerFire(r)) /\ UNCHANGED aloneVars

InitRooms == InitWith(Conns, {})

NextRooms == JoinStep({"chordaidi", "chess"}, 1) \/ DisconnectStep \/ TimerStep

SpecRooms == InitRooms /\ [][NextRooms]_vars

\* A timer that is pending fires: the event loop runs every due callback.
SpecRoomsFair == SpecRooms /\ WF_vars(TimerStep)

\* The room manager with the emissions of join_game recorded.
InitJoin == InitWith(ConnsFew, {"join_game"})

SpecJoin == InitJoin /\ [][NextRooms]_vars

StartStep == (\E c \in DOMAIN sock : StartGame(c)) /\ UNCHANGED aloneVars

MoveStep ==
    /\ \E c \in DOMAIN sock :
        \/ \E after \in PositionKinds : MakeMove(c, "ok", after)
        \/ MakeMove(c, "Illegal move", "playing")
    /\ UNCHANGED aloneVars

UndoStep == (\E c \in DOMAIN sock : ApproveUndo(c)) /\ UNCHANGED aloneVars

ResignStep == (\E c \in DOMAIN sock : Resign(c)) /\ UNCHANGED aloneVars

CdiStep ==
    /\ \E c \in DOMAIN sock :
        \/ \E emptied \in BOOLEAN : CdiPlay(c, "ok", emptied)
        \/ CdiPlay(c, "Not your turn", FALSE)
        \/ \E verdict \in {"ok", "Not your turn"} : CdiPass(c, verdict)
    /\ UNCHANGED aloneVars

BingoStep == (\E c \in DOMAIN sock, wins \in BOOLEAN : BingoCall(c, wins)) /\ UNCHANGED aloneVars

Init == InitWith(ConnsFew, {})

Next ==
    \/ JoinStep(GameTypes, 1)
    \/ DisconnectStep
    \/ TimerStep
    \/ StartStep
    \/ MoveStep
    \/ UndoStep
    \/ ResignStep
    \/ CdiStep
    \/ BingoStep

Spec == Init /\ [][Next]_vars

\* Two-player rooms with the emissions of make_move recorded.
InitMove == InitWith(ConnsFew, {"make_move"})

NextMove ==
    \/ JoinStep(TwoPlayerKinds, 1)
    \/ DisconnectStep
    \/ TimerStep
    \/ StartStep
    \/ MoveStep
    \/ UndoStep
    \/ ResignStep
    \/ CdiStep
    \/ BingoStep

SpecMove == InitMove /\ [][NextMove]_vars

\* The commands whose refusals are followed, with their emissions recorded.
Refusable == {"join_game", "make_move", "cdi_play", "cdi_pass", "bingo_call"}

InitRefusals == InitWith(ConnsFew, Refusable)

\* playerName payloads of these runs: two names, one to trim, and a blank
RefusalNames == {<<"a">>, <<" ", "b", " ">>, <<" ">>}

\* join_game: a new xiangqi or bingo room; a room id with reconnect set; a
\* fresh join the limiter stops
RefusalJoinStep ==
    /\ \E c \in DOMAIN sock, raw \in RefusalNames :
        \/ \E gameType \in {"xiangqi", "bingo"} :
              HandleJoin(c, NoRoomId, raw, FALSE, gameType, TRUE, 1)
        \/ HandleJoin(c, IdSeq[1], raw, TRUE, "xiangqi", FALSE, 1)
        \/ HandleJoin(c, NoRoomId, raw, FALSE, "xiangqi", FALSE, 1)
    /\ UNCHANGED aloneVars

NextRefusals ==
    \/ RefusalJoinStep
    \/ StartStep
    \/ MoveStep
    \/ CdiStep
    \/ BingoStep

SpecRefusals == InitRefusals /\ [][NextRefusals]_vars

\* Big Two and chess rooms with the emissions of start_game recorded.
InitStart == InitWith(ConnsFew, {"start_game"})

NextStart ==
    \/ JoinStep({"chordaidi", "chess"}, 1)
    \/ DisconnectStep
    \/ StartStep
    \/ MoveStep
    \/ ResignStep

SpecStart == InitStart /\ [][NextStart]_vars

\* ------------------------------------------------------------------ the leaderboard

\* most engines started in one room in the model
MaxGames == 2

\* most recordWin calls made for one room in the model
MaxWins == 2

\* (board.get(playerName) || 0)
WinsOf(st, gameType, playerName) ==
    IF <<gameType, playerName>> \in DOMAIN st THEN st[<<gameType, playerName>>] ELSE 0

\* recordWin(gameType, playerName): the store afterwards
recordWin(st, gameType, playerName) ==
    IF playerName = <<>> THEN st
    ELSE MapSet(st, <<gameType, playerName>>, WinsOf(st, gameType, playerName) + 1)

\* what is counted for a room so far
TallyOf(r) == IF r \in DOMAIN tally THEN tally[r] ELSE [started |-> 0, recorded |-> 0]

\* a handler of room r called recordWin(gameType, playerName)
Record(r, gameType, playerName) ==
    /\ TallyOf(r).recorded < MaxWins
    /\ store' = recordWin(store, gameType, playerName)
    /\ tally' = MapSet(tally, r, [TallyOf(r) EXCEPT !.recorded = @ + 1])

\* room.players.find(p => p.color === color), as an index (0 when none)
SeatOfColor(room, color) ==
    IF \E i \in 1..Len(room.players) : room.players[i].color = color
    THEN CHOOSE i \in 1..Len(room.players) :
            /\ room.players[i].color = color
            /\ \A j \in 1..(i-1) : room.players[j].color # color
    ELSE 0

\* start_game, with the engines started in the room counted
StartGameCounted(c) ==
    /\ StartGame(c)
    /\ IF engines' # engines
       THEN /\ TallyOf(sock[c].roomId).started < MaxGames
            /\ tally' = MapSet(tally, sock[c].roomId,
                               [TallyOf(sock[c].roomId) EXCEPT !.started = @ + 1])
       ELSE tally' = tally
    /\ UNCHANGED <<store, undoAsked, graceTimers>>

\* make_move with its lines 706-712: on game over with a winner, the seat of
\* the winner's colour is looked up and its name recorded
MakeMoveRecorded(c, verdict, after) ==
    /\ MakeMove(c, verdict, after)
    /\ LET r == sock[c].roomId
           accepted == ~crashed' /\ engines' # engines
           winner == IF accepted THEN PayloadWinner(engines'[r]) ELSE "null"
           seat == IF winner = "null" THEN 0 ELSE SeatOfColor(rooms[r], winner)
       IN  IF seat # 0
           THEN Record(r, GameTypeOf(r), rooms[r].players[seat].name)
           ELSE UNCHANGED <<store, tally>>
    /\ UNCHANGED <<undoAsked, graceTimers>>

\* resign with its line 837: the first seat of another colour than the
\* sender's is recorded as the winner
ResignRecorded(c) ==
    /\ Resign(c)
    /\ LET r == sock[c].roomId
           others == IF r = NoRoomId \/ r \notin DOMAIN rooms THEN <<>>
                     ELSE SelectSeq(rooms[r].players, LAMBDA p : p.color # sock[c].color)
       IN  IF others # <<>>
           THEN Record(r, GameTypeOf(r), Head(others).name)
           ELSE UNCHANGED <<store, tally>>
    /\ UNCHANGED <<undoAsked, graceTimers>>

\* join_game: a new chess or Big Two room; a room id with reconnect set
ScoreJoinStep ==
    /\ \E c \in DOMAIN sock, raw \in RefusalNames :
        \/ \E gameType \in {"chess", "chordaidi"} :
              HandleJoin(c, NoRoomId, raw, FALSE, gameType, TRUE, 1)
        \/ HandleJoin(c, IdSeq[1], raw, TRUE, "xiangqi", FALSE, 1)
    /\ UNCHANGED aloneVars

ScoreStartStep == (\E c \in DOMAIN sock : StartGameCounted(c)) /\ UNCHANGED standaloneVars

ScoreMoveStep ==
    /\ \E c \in DOMAIN sock :
        \/ \E after \in PositionKinds : MakeMoveRecorded(c, "ok", after)
        \/ MakeMoveRecorded(c, "Illegal move", "playing")
    /\ UNCHANGED standaloneVars

ScoreResignStep == (\E c \in DOMAIN sock : ResignRecorded(c)) /\ UNCHANGED standaloneVars

\* Chess and Big Two rooms with the leaderboard followed and the emissions of
\* resign recorded.
InitScore == InitWith(ConnsFew, {"resign"})

NextScore ==
    \/ ScoreJoinStep
    \/ ScoreStartStep
    \/ ScoreMoveStep
    \/ ScoreResignStep

SpecScore == InitScore /\ [][NextScore]_vars

\* ------------------------------------------------------------------ commands of another family

\* the commands that call a verb of the engine
EngineCommands == {"make_move", "approve_undo", "cdi_play", "cdi_pass", "bingo_call"}

\* join_game: a new chess or bingo room; a room id with reconnect set
FamilyJoinStep ==
    /\ \E c \in DOMAIN sock, raw \in RefusalNames :
        \/ \E gameType \in {"chess", "bingo"} :
              HandleJoin(c, NoRoomId, raw, FALSE, gameType, TRUE, 1)
        \/ HandleJoin(c, IdSeq[1], raw, TRUE, "xiangqi", FALSE, 1)
    /\ UNCHANGED aloneVars

\* Chess and Bingo rooms sent the commands of every family, their emissions
\* recorded.
InitFamilies == InitWith(ConnsFew, EngineCommands)

NextFamilies ==
    \/ FamilyJoinStep
    \/ StartStep
    \/ MoveStep
    \/ UndoStep
    \/ CdiStep
    \/ BingoStep

SpecFamilies == InitFamilies /\ [][NextFamilies]_vars

\* ------------------------------------------------------------------ request_undo, approve_undo, decline_undo

\* room.players.find(p => p.color !== socket.data.color && p.socketId), as an
\* index (0 when none)
OtherLiveSeat(room, color) ==
    IF \E i \in 1..Len(room.players) :
          room.players[i].color # color /\ room.players[i].socketId # NoSocket
    THEN CHOOSE i \in 1..Len(room.players) :
            /\ room.players[i].color # color /\ room.players[i].socketId # NoSocket
            /\ \A j \in 1..(i-1) :
                  ~(room.players[j].color # color /\ room.players[j].socketId # NoSocket)
    ELSE 0

\* request_undo: undo_requested goes to the first connected seat of another
\* colour; the dispatcher keeps nothing of the request, undoAsked remembers
\* who asked whom
RequestUndo(c) ==
    /\ ~crashed
    /\ sock[c].open
    /\ LET r == sock[c].roomId
       IN  IF r = NoRoomId \/ r \notin DOMAIN rooms
           THEN Reject("request_undo", c, <<>>) /\ undoAsked' = undoAsked
           ELSE LET i == OtherLiveSeat(rooms[r], sock[c].color)
                IN  IF i = 0
                    THEN /\ Reject("request_undo", c,
                                   <<ToSock(c, "error", "Opponent not connected", "")>>)
                         /\ undoAsked' = undoAsked
                    ELSE /\ Reject("request_undo", c,
                                   <<ToSock(rooms[r].players[i].socketId, "undo_requested", "", "")>>)
                         /\ undoAsked' = MapSet(undoAsked, r,
                                            [from |-> c, to |-> rooms[r].players[i].socketId])
    /\ UNCHANGED <<store, tally, graceTimers>>

\* the request of room r, if socket c is the one it was passed to, is answered
Answered(c) ==
    LET r == sock[c].roomId
    IN  IF r \in DOMAIN undoAsked /\ undoAsked[r].to = c
        THEN MapDelete(undoAsked, r) ELSE undoAsked

\* approve_undo, with the request it may answer
ApproveUndoAsked(c) ==
    /\ ApproveUndo(c)
    /\ undoAsked' = Answered(c)
    /\ UNCHANGED <<store, tally, graceTimers>>

\* decline_undo: undo_declined goes to the first connected seat of another
\* colour
DeclineUndo(c) ==
    /\ ~crashed
    /\ sock[c].open
    /\ LET r == sock[c].roomId
       IN  IF r = NoRoomId \/ r \notin DOMAIN rooms
           THEN Reject("decline_undo", c, <<>>)
           ELSE LET i == OtherLiveSeat(rooms[r], sock[c].color)
                IN  IF i = 0
                    THEN Reject("decline_undo", c, <<>>)
                    ELSE Reject("decline_undo", c,
                                <<ToSock(rooms[r].players[i].socketId, "undo_declined", "", "")>>)
    /\ undoAsked' = Answered(c)
    /\ UNCHANGED <<store, tally, graceTimers>>

RequestUndoStep == (\E c \in DOMAIN sock : RequestUndo(c)) /\ UNCHANGED standaloneVars

ApproveUndoStep == (\E c \in DOMAIN sock : ApproveUndoAsked(c)) /\ UNCHANGED standaloneVars

DeclineUndoStep == (\E c \in DOMAIN sock : DeclineUndo(c)) /\ UNCHANGED standaloneVars

\* A chess room with the emissions of approve_undo recorded and the requests
\* followed.
InitAsk == InitWith(ConnsFew, {"approve_undo"})

NextAsk ==
    \/ JoinStep({"chess"}, 1)
    \/ StartStep
    \/ MoveStep
    \/ RequestUndoStep
    \/ ApproveUndoStep
    \/ DeclineUndoStep

SpecAsk == InitAsk /\ [][NextAsk]_vars

\* ------------------------------------------------------------------ disconnect and its 2 s timer

\* the disconnect handler in full: leaveRoom, and for a socket that held a
\* seat a 2 s timer closing over the room id and the seat's name
DisconnectTimed(c) ==
    /\ Disconnect(c)
    /\ LET r == LeaveTarget(c)
       IN  graceTimers' =
             IF r # NoRoomId /\ SeatedIn(rooms[r], c)
             THEN Append(graceTimers,
                         [roomId |-> r,
                          playerName |-> rooms[r].players[FirstWithSocket(rooms[r].players, c)].name,
                          reclaimed |-> FALSE])
             ELSE graceTimers
    /\ UNCHANGED <<store, tally, undoAsked>>

\* the seat of that name had no connection in `before` and has one in `after`
SeatReclaimed(before, after, r, playerName) ==
    /\ r \in DOMAIN before
    /\ r \in DOMAIN after
    /\ LET i == SeatOfName(before[r], playerName)
       IN  /\ i # 0
           /\ before[r].players[i].socketId = NoSocket
           /\ after[r].players[i].socketId # NoSocket

\* join_game while timers are pending; `reclaimed` of a timer remembers that
\* a join gave its seat a connection (history: the callback does not read it)
JoinTimed(c, roomId, raw, reconnect, gameType) ==
    /\ HandleJoin(c, roomId, raw, reconnect, gameType, TRUE, 1)
    /\ graceTimers' =
          [i \in 1..Len(graceTimers) |->
              [graceTimers[i] EXCEPT !.reclaimed =
                  @ \/ SeatReclaimed(rooms, rooms', graceTimers[i].roomId,
                                     graceTimers[i].playerName)]]
    /\ UNCHANGED <<store, tally, undoAsked>>

\* a callback that does not look at the seat (sensitivity variant of StillAway)
StillAwayAlways(room, playerName) == TRUE

\* the callback goes on: not (player && player.socketId !== null)
StillAway(room, playerName) ==
    LET i == SeatOfName(room, playerName)
    IN  ~(i # 0 /\ room.players[i].socketId # NoSocket)

\* the callback of the timer set first (all are set for 2 s, so they come due
\* in the order set)
GraceTimerFire ==
    /\ ~crashed
    /\ graceTimers # <<>>
    /\ LET t == Head(graceTimers)
       IN  IF t.roomId \notin DOMAIN rooms
           THEN Reject("grace_timer", t, <<>>)
           ELSE IF ~StillAway(rooms[t.roomId], t.playerName)
           THEN Reject("grace_timer", t, <<>>)
           ELSE Reject("grace_timer", t,
                       <<ToRoom(t.roomId, "player_disconnected", t.playerName, ""),
                         ToRoom(t.roomId, "room_update", "", "")>>)
    /\ graceTimers' = Tail(graceTimers)
    /\ UNCHANGED <<store, tally, undoAsked>>

\* a room's deletion timer is set anew, for 60 s, by every leaveRoom that sets
\* a 2 s timer for the room: it comes due after every 2 s timer of the room
DeleteTimerDue(r) ==
    /\ \A i \in 1..Len(graceTimers) : graceTimers[i].roomId # r
    /\ DeleteTimerFire(r)

\* join_game: a new chess room; the room by its id, with and without reconnect
GraceJoinStep ==
    /\ \E c \in DOMAIN sock, raw \in RefusalNames :
        \/ JoinTimed(c, NoRoomId, raw, FALSE, "chess")
        \/ \E reconnect \in BOOLEAN : JoinTimed(c, IdSeq[1], raw, reconnect, "xiangqi")
    /\ UNCHANGED standaloneVars

GraceDisconnectStep == (\E c \in DOMAIN sock : DisconnectTimed(c)) /\ UNCHANGED standaloneVars

GraceFireStep == GraceTimerFire /\ UNCHANGED standaloneVars

GraceDeleteStep == (\E r \in RoomIds : DeleteTimerDue(r)) /\ UNCHANGED aloneVars

\* The room manager with the 2 s timers of disconnects followed and their
\* emissions recorded.
InitGrace == InitWith(Conns, {"grace_timer"})

NextGrace ==
    \/ GraceJoinStep
    \/ GraceDisconnectStep
    \/ GraceFireStep
    \/ GraceDeleteStep

SpecGrace == InitGrace /\ [][NextGrace]_vars

\* ------------------------------------------------------------------ the Big Two engine on its own

\* the set as a list of ids in increasing order
RECURSIVE SetToSeq(_)
SetToSeq(S) ==
    IF S = {} THEN <<>>
    ELSE LET m == CHOOSE x \in S : \A y \in S : x <= y
         IN  <<m>> \o SetToSeq(S \ {m})

\* Orders shuffle() can leave the deck in: as made; reversed; dealt so that
\* hand s holds ids s*NumRanks .. s*NumRanks + NumRanks - 1; dealt so that
\* hand s holds one card of each rank, of suit (s - rank) % 4.
Shuffles ==
    { [p \in 1..DeckSize |-> p - 1],
      [p \in 1..DeckSize |-> DeckSize - p],
      [p \in 1..DeckSize |-> (((p - 1) % 4) * NumRanks) + ((p - 1) \div 4)],
      [p \in 1..DeckSize |-> (4 * ((p - 1) \div 4)) + ((((p - 1) % 4) + (4 * NumRanks) - ((p - 1) \div 4)) % 4)] }

\* cardIds payloads to try for a seat: for the seat to act the sublists of its
\* hand up to six cards, lists repeating one of its cards, and a card it does
\* not hold; for any other caller one list
PlayInputs(e, seat) ==
    IF seat \notin Seats \/ seat # e.currentSeat \/ e.hands[seat] = <<>> THEN { <<0>> }
    ELSE LET hand == e.hands[seat]
             held == {hand[i] : i \in 1..Len(hand)}
         IN  {SetToSeq(S) : S \in {T \in SUBSET held : T # {} /\ Cardinality(T) <= 6}}
             \cup {<<x, x>> : x \in held}
             \cup {<<x, x, x, x, x>> : x \in held}
             \cup {<<x>> : x \in {CHOOSE y \in Cards : y \notin held}}

\* a caller: one of the four seats, or seatForColor of a colour that has none
Callers == Seats \cup {NoSeat}

EnginePlay(seat, cardIds) ==
    /\ cdi # NoGame
    /\ LET r == play(cdi, seat, cardIds)
       IN  /\ r.ok => Len(cdi.history) < MaxCdiMoves
           /\ cdi' = r.e
           /\ ret' = [op |-> "play", ok |-> r.ok, reason |-> r.reason]
    /\ UNCHANGED <<dispatcherVars, comboVars, rateVars, bingoVars, boggleVars, xiangqiVars, chessVars, recordVars>>

EnginePass(seat) ==
    /\ cdi # NoGame
    /\ LET r == passFixed(cdi, seat)
       IN  /\ r.ok => Len(cdi.history) < MaxCdiMoves
           /\ cdi' = r.e
           /\ ret' = [op |-> "pass", ok |-> r.ok, reason |-> r.reason]
    /\ UNCHANGED <<dispatcherVars, comboVars, rateVars, bingoVars, boggleVars, xiangqiVars, chessVars, recordVars>>

PlayStep == \E seat \in Callers : \E cardIds \in PlayInputs(cdi, seat) : EnginePlay(seat, cardIds)

PassStep == \E seat \in Callers : EnginePass(seat)

\* a game just created, on any of the shuffles
InitCDI ==
    /\ InitDispatcher({}, {})
    /\ cdi \in {createGame(deal(deck)) : deck \in Shuffles}
    /\ ret = NoRet
    /\ trial = NoTrial
    /\ InitLimiter
    /\ InitRecords
    /\ InitChessIdle
    /\ InitXiangqiIdle
    /\ InitBoggleIdle
    /\ InitBingoIdle

NextCDI == PlayStep \/ PassStep

SpecCDI == InitCDI /\ [][NextCDI]_vars

\* ------------------------------------------------------------------ combos against the table

\* Cards of the 52-card deck to build lists from: the diamonds 3 to 8, the
\* other three 3s, two more 4s.
ComboPool == {0, 1, 2, 3, 4, 5, 6, 8, 12, 16, 20}

\* cardIds payloads: the sublists of the pool up to MaxPlayLen cards, and
\* lists repeating one card
ComboLists ==
    {SetToSeq(S) : S \in {T \in SUBSET ComboPool : T # {} /\ Cardinality(T) <= MaxPlayLen}}
    \cup {<<x, x>> : x \in ComboPool}
    \cup {<<x, x, x, x, x>> : x \in ComboPool}

\* what can lie on the table: nothing, or the cards of a combo
TableLists == {<<>>} \cup {l \in ComboLists : classifyCombo(l) # NoCombo}

\* play, lines 1178-1190, on a list of cards of the hand after the first play:
\* classify, then beat the table unless it is empty
JudgePlay ==
    /\ trial.verdict = ""
    /\ trial # NoTrial
    /\ LET combo == classifyCombo(trial.cardIds)
           tableCombo == classifyCombo(trial.table)
       IN  trial' = [trial EXCEPT !.verdict =
                IF combo = NoCombo THEN "Invalid combination"
                ELSE IF tableCombo # NoCombo /\ ~beats(combo, tableCombo)
                THEN "Does not beat the table"
                ELSE "ok"]
    /\ UNCHANGED <<dispatcherVars, engineVars, rateVars, bingoVars, boggleVars, xiangqiVars, chessVars, recordVars>>

\* a list to play and a table, not yet judged
InitBeats ==
    /\ InitDispatcher({}, {})
    /\ cdi = NoGame
    /\ ret = NoRet
    /\ trial \in {[table |-> t, cardIds |-> l, verdict |-> ""] : t \in TableLists, l \in ComboLists}
    /\ InitLimiter
    /\ InitRecords
    /\ InitChessIdle
    /\ InitXiangqiIdle
    /\ InitBoggleIdle
    /\ InitBingoIdle

NextBeats == JudgePlay

SpecBeats == InitBeats /\ [][NextBeats]_vars

\* ------------------------------------------------------------------ join rate limiter

\* entry.count <= 10
JoinLimit == 10

\* now + 60_000
WindowMs == 60000

\* socket.handshake.headers['x-forwarded-for'] || socket.handshake.address:
\* the connections followed come from one address
IpOf(c) == "ip1"

\* checkJoinRate(ip) at time now: the map after the call and the verdict
checkJoinRate(counts, ip, now) ==
    LET entry == IF ip \in DOMAIN counts THEN counts[ip]
                 ELSE [count |-> 0, resetAt |-> now + WindowMs]
        current == IF now > entry.resetAt
                   THEN [count |-> 0, resetAt |-> now + WindowMs]
                   ELSE entry
        counted == [current EXCEPT !.count = @ + 1]
    IN  [counts |-> MapSet(counts, ip, counted), ok |-> counted.count <= JoinLimit]

\* the times of a list with `at` added, the last JoinLimit + 1 of them
Admit(times, at) ==
    LET all == Append(times, at)
    IN  IF Len(all) > JoinLimit + 1 THEN Tail(all) ELSE all

AdmittedAt(ip) == IF ip \in DOMAIN admitted THEN admitted[ip] ELSE <<>>

\* join_game with the limiter in front: handleJoin, lines 571-577 and on
RatedJoin(c, roomId, raw, reconnect) ==
    LET ip == IpOf(c)
        r == checkJoinRate(joinCounts, ip, clock.now)
    IN  /\ ~reconnect => r.counts[ip].count <= JoinLimit + MaxOver
        /\ HandleJoin(c, roomId, raw, reconnect, "xiangqi", reconnect \/ r.ok, 1)
        /\ joinCounts' = IF reconnect THEN joinCounts ELSE r.counts
        /\ admitted' = IF ~reconnect /\ r.ok
                       THEN MapSet(admitted, ip, Admit(AdmittedAt(ip), clock.now))
                       ELSE admitted
        /\ UNCHANGED <<clock, engineVars, comboVars, bingoVars, boggleVars, xiangqiVars, chessVars, recordVars>>

\* playerName payloads of the rated joins: a name and a blank
RatedNames == {<<"a">>, <<" ">>}

RatedJoinStep ==
    \E c \in DOMAIN sock, raw \in RatedNames, roomId \in {NoRoomId, IdSeq[1]},
       reconnect \in BOOLEAN :
        RatedJoin(c, roomId, raw, reconnect)

\* time passes between two commands: by a millisecond, or by a whole window
TickStep ==
    /\ clock.ticks < MaxTicks
    /\ \E d \in {1, WindowMs} : clock' = [now |-> clock.now + d, ticks |-> clock.ticks + 1]
    /\ UNCHANGED <<dispatcherVars, engineVars, comboVars, joinCounts, admitted, bingoVars, boggleVars, xiangqiVars, chessVars, recordVars>>

InitRate == InitWith(ConnsFew, {})

NextRate == RatedJoinStep \/ TickStep

SpecRate == InitRate /\ [][NextRate]_vars

\* ------------------------------------------------------------------ the Bingo engine

FREE_ROW == 2

FREE_COL == 2

\* row and column indices of a card
Lines == 0..(CARD_SIZE - 1)

\* COL_RANGES[col].min
ColMin(col) == 15 * col + 1

\* initialMarked(): only the FREE centre is marked
initialMarked == [r \in Lines |-> [c \in Lines |-> r = FREE_ROW /\ c = FREE_COL]]

\* the win types in the order checkWins pushes them
WinTypes ==
    <<"row0", "row1", "row2", "row3", "row4", "col0", "col1", "col2", "col3", "col4",
      "diag-tl", "diag-tr", "fullhouse">>

\* the condition under which checkWins pushes the type
HasWin(marked, type) ==
    CASE type \in {"row0", "row1", "row2", "row3", "row4"} ->
            \A c \in Lines : marked[IndexOf(WinTypes, type)][c]
      [] type \in {"col0", "col1", "col2", "col3", "col4"} ->
            \A r \in Lines : marked[r][IndexOf(WinTypes, type) - CARD_SIZE]
      [] type = "diag-tl" -> \A i \in Lines : marked[i][i]
      [] type = "diag-tr" -> \A i \in Lines : marked[i][CARD_SIZE - 1 - i]
      [] OTHER -> \A r \in Lines, c \in Lines : marked[r][c]

\* a checkWins that looks at rows and columns only (sensitivity variant of checkWins)
checkWinsNoDiagonal(marked) ==
    SelectSeq(WinTypes, LAMBDA type : type \notin {"diag-tl", "diag-tr"} /\ HasWin(marked, type))

checkWins(marked) == SelectSeq(WinTypes, LAMBDA type : HasWin(marked, type))

\* createGame(playerCount) on the pool order and the cards the shuffles left
createBingoGame(pool, cards) ==
    [pool |-> pool,
     called |-> <<>>,
     cards |-> cards,
     marked |-> [p \in DOMAIN cards |-> initialMarked],
     isGameOver |-> FALSE,
     winners |-> <<>>]

\* the seats of a game
BingoSeats(b) == DOMAIN b.cards

\* the seats 0 .. playerCount - 1 as a list
SeatList(b) == [i \in 1..Cardinality(BingoSeats(b)) |-> i - 1]

BingoRefused(b, seat, reason) ==
    [b |-> b, ret |-> [seat |-> seat, ok |-> FALSE, reason |-> reason, number |-> 0,
                       newWinners |-> <<>>]]

\* a callNumber that draws but leaves the number in the pool (sensitivity
\* variant of Drawn)
DrawnKeepsPool(b) == [b EXCEPT !.called = Append(@, b.pool[Len(b.pool)])]

\* const num = pool.pop(); called.push(num)
Drawn(b) ==
    [b EXCEPT !.pool = SubSeq(@, 1, Len(@) - 1), !.called = Append(@, b.pool[Len(b.pool)])]

\* a marking loop that skips the last column (sensitivity variant of Marked)
MarkedButLastColumn(b, num) ==
    [b EXCEPT !.marked = [p \in BingoSeats(b) |-> [r \in Lines |-> [c \in Lines |->
        b.marked[p][r][c] \/ (b.cards[p][r][c] = num /\ c # CARD_SIZE - 1)]]]]

\* the marking loop: every cell of every card that holds num
Marked(b, num) ==
    [b EXCEPT !.marked = [p \in BingoSeats(b) |-> [r \in Lines |-> [c \in Lines |->
        b.marked[p][r][c] \/ b.cards[p][r][c] = num]]]]

\* seat !== 0
NotCaller(seat) == seat # 0

\* callNumber(seat): the engine after the call and what the call returns
callNumber(b, seat) ==
    IF NotCaller(seat) THEN BingoRefused(b, seat, "Only the caller can draw numbers")
    ELSE IF b.isGameOver THEN BingoRefused(b, seat, "Game is over")
    ELSE IF Len(b.pool) = 0 THEN BingoRefused(b, seat, "All numbers have been called!")
    ELSE LET num == b.pool[Len(b.pool)]
             b1 == Marked(Drawn(b), num)
             alreadyWon(p) == \E i \in 1..Len(b1.winners) : b1.winners[i].seat = p
             winning == SelectSeq(SeatList(b1),
                                  LAMBDA p : Len(checkWins(b1.marked[p])) > 0 /\ ~alreadyWon(p))
             newWinners == [i \in 1..Len(winning) |->
                               [seat |-> winning[i], types |-> checkWins(b1.marked[winning[i]])]]
             b2 == IF Len(newWinners) > 0
                   THEN [b1 EXCEPT !.winners = @ \o newWinners, !.isGameOver = TRUE]
                   ELSE b1
         IN  [b |-> b2, ret |-> [seat |-> seat, ok |-> TRUE, reason |-> "", number |-> num,
                                 newWinners |-> newWinners]]

\* ------------------------------------------------------------------ Bingo games

\* Cards generateCard() can make: column col holds five numbers of its range,
\* the centre is FREE (0). Low: the first five of each range, top down; flipped:
\* the same numbers bottom up; high: the next five of each range.
CardLow == [r \in Lines |-> [c \in Lines |->
    IF r = FREE_ROW /\ c = FREE_COL THEN 0 ELSE ColMin(c) + r]]

CardFlipped == [r \in Lines |-> [c \in Lines |->
    IF r = FREE_ROW /\ c = FREE_COL THEN 0 ELSE ColMin(c) + (CARD_SIZE - 1 - r)]]

CardHigh == [r \in Lines |-> [c \in Lines |->
    IF r = FREE_ROW /\ c = FREE_COL THEN 0 ELSE ColMin(c) + CARD_SIZE + r]]

\* the cards of two seats
CardDeals ==
    { [p \in {0, 1} |-> IF p = 0 THEN CardLow ELSE CardHigh],
      [p \in {0, 1} |-> IF p = 0 THEN CardLow ELSE CardFlipped],
      [p \in {0, 1} |-> IF p = 0 THEN CardHigh ELSE CardLow] }

\* the numbers in the order start, start + step, ... wrapping within 1..PoolSize
StepOrder(start, step) ==
    [n \in 1..PoolSize |-> ((start + step * (n - 1) - 1) % PoolSize) + 1]

\* the numbers range by range: 1, 16, 31, 46, 61, 2, 17, ...
RowOrder == [n \in 1..PoolSize |-> (15 * ((n - 1) % CARD_SIZE)) + ((n - 1) \div CARD_SIZE) + 1]

\* Orders in which shuffle() can leave the numbers to be drawn: ascending,
\* range by range, along either diagonal of CardLow, and two scattered ones.
CallOrders ==
    {StepOrder(1, 1), RowOrder, StepOrder(1, 16), StepOrder(61, 61), StepOrder(3, 7),
     StepOrder(75, 74)}

\* the pool that is drawn in this order: pop() takes the last element
PoolOf(order) == [n \in 1..Len(order) |-> order[Len(order) + 1 - n]]

\* seat arguments of callNumber: the caller, the other seat, indexOf's -1
BingoCallers == {0, 1, -1}

EngineCall(seat) ==
    /\ bingo # NoBingo
    /\ LET r == callNumber(bingo, seat)
       IN  /\ bingo' = r.b
           /\ bingoRet' = r.ret
    /\ UNCHANGED <<dispatcherVars, engineVars, comboVars, rateVars, boggleVars, xiangqiVars, chessVars, recordVars>>

CallStep == \E seat \in BingoCallers : EngineCall(seat)

InitBingo ==
    /\ InitDispatcher({}, {})
    /\ cdi = NoGame
    /\ ret = NoRet
    /\ trial = NoTrial
    /\ InitLimiter
    /\ InitRecords
    /\ InitChessIdle
    /\ InitXiangqiIdle
    /\ InitBoggleIdle
    /\ bingo \in {createBingoGame(PoolOf(order), cards) : order \in CallOrders, cards \in CardDeals}
    /\ bingoRet = NoBingoRet

NextBingo == CallStep

SpecBingo == InitBingo /\ [][NextBingo]_vars

\* The caller goes on drawing for as long as a draw is accepted.
SpecBingoFair == SpecBingo /\ WF_vars(EngineCall(0))

\* ------------------------------------------------------------------ the Boggle engine

ROUND_SECONDS == 180

\* the letters in alphabetical order, and their lower-case forms
UpperLetters ==
    <<"A", "B", "C", "D", "E", "F", "G", "H", "I", "J", "K", "L", "M",
      "N", "O", "P", "Q", "R", "S", "T", "U", "V", "W", "X", "Y", "Z">>

LowerLetters ==
    <<"a", "b", "c", "d", "e", "f", "g", "h", "i", "j", "k", "l", "m",
      "n", "o", "p", "q", "r", "s", "t", "u", "v", "w", "x", "y", "z">>

\* String.prototype.toUpperCase, character by character
toUpperCase(word) ==
    [i \in 1..Len(word) |->
        IF IndexOf(LowerLetters, word[i]) >= 0
        THEN UpperLetters[IndexOf(LowerLetters, word[i]) + 1]
        ELSE word[i]]

\* /^[A-Z]+$/.test(w)
LettersOnly(w) == Len(w) > 0 /\ \A i \in 1..Len(w) : IndexOf(UpperLetters, w[i]) >= 0

\* The entries of WORD_SET that the payloads followed can spell.
WORD_SET ==
    { <<"C", "A", "T">>, <<"Q", "U", "E", "E", "N">>, <<"C", "L", "O", "S", "E", "R">>,
      <<"D", "O", "G">> }

\* scoreWord
scoreWord(word) ==
    LET len == Len(word)
    IN  IF len < 3 THEN 0
        ELSE IF len <= 4 THEN 1
        ELSE IF len = 5 THEN 2
        ELSE IF len = 6 THEN 3
        ELSE IF len = 7 THEN 5
        ELSE 11

Abs(x) == IF x < 0 THEN -x ELSE x

\* adjacent(i, j) on the 4x4 grid
adjacent(i, j) ==
    /\ Abs((i \div 4) - (j \div 4)) <= 1
    /\ Abs((i % 4) - (j % 4)) <= 1
    /\ i # j

\* board[i] === 'Q' ? 'QU' : board[i]
TileOf(board, i) == IF board[i + 1] = "Q" THEN <<"Q", "U">> ELSE <<board[i + 1]>>

\* String.prototype.startsWith
StartsWith(word, tile) == Len(word) >= Len(tile) /\ SubSeq(word, 1, Len(tile)) = tile

\* dfsPath on what is left of the word, from tile pos, with the tiles used
RECURSIVE dfsPath(_, _, _, _)
dfsPath(board, rest, pos, used) ==
    \/ rest = <<>>
    \/ \E next \in (0..15) \ used :
        /\ adjacent(pos, next)
        /\ StartsWith(rest, TileOf(board, next))
        /\ dfsPath(board, SubSeq(rest, Len(TileOf(board, next)) + 1, Len(rest)), next,
                   used \cup {next})

canFormWord(board, word) ==
    \E start \in 0..15 :
        /\ StartsWith(word, TileOf(board, start))
        /\ dfsPath(board, SubSeq(word, Len(TileOf(board, start)) + 1, Len(word)), start, {start})

\* createGame(playerCount) at time now, on the board generateBoard() rolled
createBoggleGame(board, playerCount, now) ==
    [board |-> board,
     startTime |-> now,
     submissions |-> [s \in 0..(playerCount - 1) |-> {}],
     isGameOver |-> FALSE,
     scores |-> <<>>,
     words |-> <<>>]

BoggleSeats(g) == DOMAIN g.submissions

\* timeLeft() at time now
timeLeft(g, now) ==
    LET elapsed == (now - g.startTime) \div 1000
    IN  IF ROUND_SECONDS - elapsed > 0 THEN ROUND_SECONDS - elapsed ELSE 0

SubmitRefused(g, seat, reason) ==
    [g |-> g, ret |-> [op |-> "submitWord", seat |-> seat, ok |-> FALSE, reason |-> reason,
                       word |-> <<>>, scores |-> <<>>, words |-> <<>>]]

\* a round that never counts as over for submitWord (sensitivity variant of RoundOver)
RoundOverNever(g) == FALSE

\* _isGameOver, as submitWord reads it
RoundOver(g) == g.isGameOver

\* a duplicate test on the word as typed (sensitivity variant of AlreadyHas)
AlreadyHasAsTyped(g, seat, w, typed) == typed \in g.submissions[seat]

\* submissions[seat].has(w)
AlreadyHas(g, seat, w, typed) == w \in g.submissions[seat]

\* submitWord(seat, word) at time now; a payload is a string of characters or
\* something else
submitWord(g, seat, payload, now) ==
    IF RoundOver(g) THEN SubmitRefused(g, seat, "Round is over")
    ELSE IF timeLeft(g, now) <= 0 THEN SubmitRefused(g, seat, "Time is up")
    ELSE IF payload.type # "string" THEN SubmitRefused(g, seat, "Invalid word")
    ELSE LET w == Trim(toUpperCase(payload.chars))
         IN  IF Len(w) < 3 THEN SubmitRefused(g, seat, "Words must be at least 3 letters")
             ELSE IF ~LettersOnly(w) THEN SubmitRefused(g, seat, "Letters only")
             ELSE IF AlreadyHas(g, seat, w, payload.chars)
             THEN SubmitRefused(g, seat, "Already submitted")
             ELSE IF w \notin WORD_SET THEN SubmitRefused(g, seat, "Not a valid word")
             ELSE IF ~canFormWord(g.board, w)
             THEN SubmitRefused(g, seat, "Cannot be formed on the board")
             ELSE [g |-> [g EXCEPT !.submissions[seat] = @ \cup {w}],
                   ret |-> [op |-> "submitWord", seat |-> seat, ok |-> TRUE, reason |-> "",
                            word |-> w, scores |-> <<>>, words |-> <<>>]]

\* a.localeCompare(b) < 0 on words of capital letters
RECURSIVE WordBefore(_, _)
WordBefore(a, b) ==
    IF a = <<>> THEN b # <<>>
    ELSE IF b = <<>> THEN FALSE
    ELSE IF Head(a) = Head(b) THEN WordBefore(Tail(a), Tail(b))
    ELSE IndexOf(UpperLetters, Head(a)) < IndexOf(UpperLetters, Head(b))

\* the comparator of the sort in endRound: unique first, then alphabetical
EntryBefore(x, y) ==
    IF x.unique # y.unique THEN x.unique ELSE WordBefore(x.word, y.word)

\* the entries in the order the sort leaves them
RECURSIVE SortEntries(_)
SortEntries(S) ==
    IF S = {} THEN <<>>
    ELSE LET m == CHOOSE x \in S : \A y \in S \ {x} : EntryBefore(x, y)
         IN  <<m>> \o SortEntries(S \ {m})

\* the seats that submitted the word
SeatsOf(g, w) == {s \in BoggleSeats(g) : w \in g.submissions[s]}

\* an endRound that gives a shared word its points (sensitivity variant of PointsFor)
PointsForShared(g, w) == scoreWord(w)

\* unique ? scoreWord(w) : 0
PointsFor(g, w) == IF Cardinality(SeatsOf(g, w)) = 1 THEN scoreWord(w) ELSE 0

RECURSIVE SumPoints(_, _)
SumPoints(g, S) ==
    IF S = {} THEN 0
    ELSE LET w == CHOOSE x \in S : TRUE IN PointsFor(g, w) + SumPoints(g, S \ {w})

\* the scores and word lists endRound computes; each word of a set is met once
\* and the lists are sorted, so the order of the submissions does not show
Tally(g) ==
    [g EXCEPT
        !.isGameOver = TRUE,
        !.scores = [i \in 1..Cardinality(BoggleSeats(g)) |-> SumPoints(g, g.submissions[i - 1])],
        !.words = [i \in 1..Cardinality(BoggleSeats(g)) |->
                      SortEntries({[word |-> w, score |-> PointsFor(g, w),
                                    unique |-> Cardinality(SeatsOf(g, w)) = 1] :
                                   w \in g.submissions[i - 1]})]]

\* endRound()
endRound(g) ==
    LET g1 == IF g.isGameOver THEN g ELSE Tally(g)
    IN  [g |-> g1, ret |-> [op |-> "endRound", seat |-> -1, ok |-> TRUE, reason |-> "",
                            word |-> <<>>, scores |-> g1.scores, words |-> g1.words]]

\* ------------------------------------------------------------------ Boggle rounds

\* A board generateBoard() can roll: one face of each of the 16 dice.
\*   P L Y H / C S O T / A R E E / L T Q N
BoggleBoard ==
    <<"P", "L", "Y", "H", "C", "S", "O", "T", "A", "R", "E", "E", "L", "T", "Q", "N">>

Str(chars) == [type |-> "string", chars |-> chars]

\* word payloads: words of the board in several spellings, a word not on the
\* board, a non-word, a short one, one with a digit, and a number
WordPayloads ==
    { Str(<<"c", "a", "t">>), Str(<<" ", "C", "A", "T", " ">>),
      Str(<<"Q", "U", "E", "E", "N">>), Str(<<"c", "l", "o", "s", "e", "r">>),
      Str(<<"D", "O", "G">>), Str(<<"T", "A", "C">>), Str(<<"a", "t">>),
      Str(<<"C", "4", "T">>), [type |-> "number", chars |-> <<>>] }

EngineSubmit(seat, payload) ==
    /\ boggle # NoBoggle
    /\ LET r == submitWord(boggle, seat, payload, clock.now)
       IN  /\ boggle' = r.g
           /\ boggleRet' = r.ret
    /\ UNCHANGED <<dispatcherVars, engineVars, comboVars, rateVars, bingoVars, xiangqiVars, chessVars, recordVars>>

SubmitStep == \E seat \in 0..1, payload \in WordPayloads : EngineSubmit(seat, payload)

EndStep ==
    /\ boggle # NoBoggle
    /\ LET r == endRound(boggle)
       IN  /\ boggle' = r.g
           /\ boggleRet' = r.ret
    /\ UNCHANGED <<dispatcherVars, engineVars, comboVars, rateVars, bingoVars, xiangqiVars, chessVars, recordVars>>

\* a minute passes on the clock Date.now() reads
MinuteStep ==
    /\ boggle # NoBoggle
    /\ clock.ticks < MaxTicks
    /\ clock' = [now |-> clock.now + 60000, ticks |-> clock.ticks + 1]
    /\ UNCHANGED <<dispatcherVars, engineVars, comboVars, joinCounts, admitted, bingoVars, boggleVars, xiangqiVars, chessVars, recordVars>>

InitBoggle ==
    /\ InitDispatcher({}, {})
    /\ cdi = NoGame
    /\ ret = NoRet
    /\ trial = NoTrial
    /\ InitLimiter
    /\ InitRecords
    /\ InitChessIdle
    /\ InitXiangqiIdle
    /\ InitBingoIdle
    /\ boggle = createBoggleGame(BoggleBoard, 2, clock.now)
    /\ boggleRet = NoBoggleRet

NextBoggle == SubmitStep \/ EndStep \/ MinuteStep

SpecBoggle == InitBoggle /\ [][NextBoggle]_vars

\* ------------------------------------------------------------------ the Xiangqi engine

\* null, in a cell of a board
Nil == "null"

\* the board of a FEN board field, cell by cell: board[r][c], counted from 0
BoardOf(rows) ==
    [r \in 0..(Len(rows) - 1) |->
        [c \in 0..(Len(rows[r + 1]) - 1) |-> rows[r + 1][c + 1]]]

\* parseFen(INITIAL_FEN).board for
\* 'rnbakabnr/9/1c5c1/p1p1p1p1p/9/9/P1P1P1P1P/1C5C1/9/RNBAKABNR w'
XiangqiInitialBoard ==
    BoardOf(<< <<"r", "n", "b", "a", "k", "a", "b", "n", "r">>,
               <<Nil, Nil, Nil, Nil, Nil, Nil, Nil, Nil, Nil>>,
               <<Nil, "c", Nil, Nil, Nil, Nil, Nil, "c", Nil>>,
               <<"p", Nil, "p", Nil, "p", Nil, "p", Nil, "p">>,
               <<Nil, Nil, Nil, Nil, Nil, Nil, Nil, Nil, Nil>>,
               <<Nil, Nil, Nil, Nil, Nil, Nil, Nil, Nil, Nil>>,
               <<"P", Nil, "P", Nil, "P", Nil, "P", Nil, "P">>,
               <<Nil, "C", Nil, Nil, Nil, Nil, Nil, "C", Nil>>,
               <<Nil, Nil, Nil, Nil, Nil, Nil, Nil, Nil, Nil>>,
               <<"R", "N", "B", "A", "K", "A", "B", "N", "R">> >>)

UpperSet == {UpperLetters[i] : i \in 1..Len(UpperLetters)}

LowerSet == {LowerLetters[i] : i \in 1..Len(LowerLetters)}

\* piece.toLowerCase() and piece.toUpperCase() on a piece code
LowerCaseOf ==
    [ch \in UpperSet \cup LowerSet |->
        IF ch \in UpperSet THEN LowerLetters[IndexOf(UpperLetters, ch) + 1] ELSE ch]

UpperCaseOf ==
    [ch \in UpperSet \cup LowerSet |->
        IF ch \in LowerSet THEN UpperLetters[IndexOf(LowerLetters, ch) + 1] ELSE ch]

\* piece && piece === piece.toUpperCase()
isRed(piece) == piece # Nil /\ piece = UpperCaseOf[piece]

\* piece && piece === piece.toLowerCase()
isBlack(piece) == piece # Nil /\ piece = LowerCaseOf[piece]

sameColor(a, b) ==
    /\ a # Nil
    /\ b # Nil
    /\ (isRed(a) /\ isRed(b)) \/ (isBlack(a) /\ isBlack(b))

inBoard(r, c) == r >= 0 /\ r <= 9 /\ c >= 0 /\ c <= 8

\* a palace as wide as the board (sensitivity variant of inPalace)
inPalaceAnywhere(r, c, red) == inBoard(r, c)

inPalace(r, c, red) ==
    /\ r >= (IF red THEN 7 ELSE 0)
    /\ r <= (IF red THEN 9 ELSE 2)
    /\ c >= 3
    /\ c <= 5

\* the four orthogonal steps
Orthogonal == {<<-1, 0>>, <<1, 0>>, <<0, -1>>, <<0, 1>>}

\* the four diagonal steps
Diagonal == {<<-1, -1>>, <<-1, 1>>, <<1, -1>>, <<1, 1>>}

\* the closure add of getLegalMoves
AddXiangqi(board, piece, nr, nc) ==
    IF inBoard(nr, nc) /\ ~sameColor(piece, board[nr][nc]) THEN {<<nr, nc>>} ELSE {}

\* the while loop of the chariot along one direction
RECURSIVE ChariotRide(_, _, _, _, _, _)
ChariotRide(board, piece, nr, nc, dr, dc) ==
    IF ~inBoard(nr, nc) THEN {}
    ELSE IF board[nr][nc] # Nil THEN AddXiangqi(board, piece, nr, nc)
    ELSE AddXiangqi(board, piece, nr, nc) \cup ChariotRide(board, piece, nr + dr, nc + dc, dr, dc)

\* the while loop of the cannon along one direction
RECURSIVE CannonRide(_, _, _, _, _, _, _)
CannonRide(board, piece, nr, nc, dr, dc, jumped) ==
    IF ~inBoard(nr, nc) THEN {}
    ELSE IF ~jumped
    THEN IF board[nr][nc] # Nil
         THEN CannonRide(board, piece, nr + dr, nc + dc, dr, dc, TRUE)
         ELSE {<<nr, nc>>} \cup CannonRide(board, piece, nr + dr, nc + dc, dr, dc, FALSE)
    ELSE IF board[nr][nc] # Nil
         THEN IF ~sameColor(piece, board[nr][nc]) THEN {<<nr, nc>>} ELSE {}
         ELSE CannonRide(board, piece, nr + dr, nc + dc, dr, dc, TRUE)

\* legMoves of the horse: the leg and the destination
legMoves ==
    { <<<<-1, 0>>, <<-2, -1>>>>, <<<<-1, 0>>, <<-2, 1>>>>,
      <<<<1, 0>>, <<2, -1>>>>, <<<<1, 0>>, <<2, 1>>>>,
      <<<<0, -1>>, <<-1, -2>>>>, <<<<0, -1>>, <<1, -2>>>>,
      <<<<0, 1>>, <<-1, 2>>>>, <<<<0, 1>>, <<1, 2>>>> }

\* getLegalMoves(board, r, c): the pseudo-legal destinations
getLegalMoves(board, r, c) ==
    LET piece == board[r][c]
        p == LowerCaseOf[piece]
        red == isRed(piece)
    IN  IF piece = Nil THEN {}
        ELSE IF p = "r"
        THEN UNION {ChariotRide(board, piece, r + d[1], c + d[2], d[1], d[2]) : d \in Orthogonal}
        ELSE IF p = "n"
        THEN {<<r + lm[2][1], c + lm[2][2]>> :
                lm \in {x \in legMoves :
                          /\ inBoard(r + x[1][1], c + x[1][2])
                          /\ board[r + x[1][1]][c + x[1][2]] = Nil
                          /\ inBoard(r + x[2][1], c + x[2][2])
                          /\ ~sameColor(piece, board[r + x[2][1]][c + x[2][2]])}}
        ELSE IF p = "b"
        THEN {<<r + 2 * d[1], c + 2 * d[2]>> :
                d \in {x \in Diagonal :
                          /\ inBoard(r + 2 * x[1], c + 2 * x[2])
                          /\ ~(red /\ r + 2 * x[1] < 5)
                          /\ ~(~red /\ r + 2 * x[1] > 4)
                          /\ board[r + x[1]][c + x[2]] = Nil
                          /\ ~sameColor(piece, board[r + 2 * x[1]][c + 2 * x[2]])}}
        ELSE IF p = "a"
        THEN {<<r + d[1], c + d[2]>> :
                d \in {x \in Diagonal :
                          /\ inPalace(r + x[1], c + x[2], red)
                          /\ ~sameColor(piece, board[r + x[1]][c + x[2]])}}
        ELSE IF p = "k"
        THEN {<<r + d[1], c + d[2]>> :
                d \in {x \in Orthogonal :
                          /\ inPalace(r + x[1], c + x[2], red)
                          /\ ~sameColor(piece, board[r + x[1]][c + x[2]])}}
        ELSE IF p = "c"
        THEN UNION {CannonRide(board, piece, r + d[1], c + d[2], d[1], d[2], FALSE) :
                      d \in Orthogonal}
        ELSE IF p = "p"
        THEN IF red
             THEN AddXiangqi(board, piece, r - 1, c)
                  \cup (IF r <= 4
                        THEN AddXiangqi(board, piece, r, c - 1) \cup AddXiangqi(board, piece, r, c + 1)
                        ELSE {})
             ELSE AddXiangqi(board, piece, r + 1, c)
                  \cup (IF r >= 5
                        THEN AddXiangqi(board, piece, r, c - 1) \cup AddXiangqi(board, piece, r, c + 1)
                        ELSE {})
        ELSE {}

\* the cells of a board that hold the piece code
CellsWith(board, code) ==
    {sq \in (DOMAIN board) \X (DOMAIN board[0]) : board[sq[1]][sq[2]] = code}

\* the first cell of a set in the order of the scan, row by row
FirstCell(cells) ==
    CHOOSE sq \in cells : \A other \in cells :
        sq[1] < other[1] \/ (sq[1] = other[1] /\ sq[2] <= other[2])

\* findKing(board, red); <<>> stands for null
findKingXiangqi(board, red) ==
    LET found == CellsWith(board, IF red THEN "K" ELSE "k")
    IN  IF found = {} THEN <<>> ELSE FirstCell(found)

\* the cells that hold a piece
Occupied(board) ==
    {sq \in (DOMAIN board) \X (DOMAIN board[0]) : board[sq[1]][sq[2]] # Nil}

\* the flying generals test of isInCheck
FlyingGenerals(board, king, oppKing) ==
    /\ oppKing # <<>>
    /\ oppKing[2] = king[2]
    /\ \A r \in (Min(king[1], oppKing[1]) + 1)..(Max(king[1], oppKing[1]) - 1) :
          board[r][king[2]] = Nil

\* isInCheck(board, red)
isInCheckXiangqi(board, red) ==
    LET king == findKingXiangqi(board, red)
    IN  /\ king # <<>>
        /\ \/ \E sq \in Occupied(board) :
                /\ ~(IF red THEN isRed(board[sq[1]][sq[2]]) ELSE isBlack(board[sq[1]][sq[2]]))
                /\ king \in getLegalMoves(board, sq[1], sq[2])
           \/ FlyingGenerals(board, king, findKingXiangqi(board, ~red))

\* applyMove(board, from, to)
applyMoveXiangqi(board, from, to) ==
    [[board EXCEPT ![to[1]][to[2]] = board[from[1]][from[2]]]
        EXCEPT ![from[1]][from[2]] = Nil]

\* createGame()
createXiangqiGame == [board |-> XiangqiInitialBoard, turn |-> "w", history |-> <<>>]

MoveRefused(g, from, to, promotion, reason) ==
    [g |-> g, ret |-> [op |-> "move", from |-> from, to |-> to, promotion |-> promotion,
                       ok |-> FALSE, reason |-> reason]]

\* a turn that stays with the mover (sensitivity variant of NextTurn)
NextTurnSame(turn) == turn

\* turn === 'w' ? 'b' : 'w'
NextTurn(turn) == IF turn = "w" THEN "b" ELSE "w"

\* move(from, to)
moveXiangqi(g, from, to) ==
    LET piece == g.board[from[1]][from[2]]
        red == g.turn = "w"
        newBoard == applyMoveXiangqi(g.board, from, to)
    IN  IF piece = Nil THEN MoveRefused(g, from, to, Nil, "No piece at source")
        ELSE IF isRed(piece) # red THEN MoveRefused(g, from, to, Nil, "Not your piece")
        ELSE IF to \notin getLegalMoves(g.board, from[1], from[2])
        THEN MoveRefused(g, from, to, Nil, "Illegal move")
        ELSE IF isInCheckXiangqi(newBoard, red)
        THEN MoveRefused(g, from, to, Nil, "Move leaves king in check")
        ELSE [g |-> [board |-> newBoard,
                     turn |-> NextTurn(g.turn),
                     history |-> Append(g.history, [board |-> g.board, turn |-> g.turn])],
              ret |-> [op |-> "move", from |-> from, to |-> to, promotion |-> Nil, ok |-> TRUE,
                       reason |-> ""]]

\* what undo() returns, with the engine it leaves
UndoDone(g, ok) ==
    [g |-> g, ret |-> [op |-> "undo", from |-> <<>>, to |-> <<>>, promotion |-> Nil, ok |-> ok,
                       reason |-> ""]]

\* all of a list but its last entry
Front(list) == SubSeq(list, 1, Len(list) - 1)

\* an undo that puts the board back and leaves the turn (sensitivity variant
\* of undoXiangqi)
undoXiangqiKeepsTurn(g) ==
    IF Len(g.history) = 0 THEN UndoDone(g, FALSE)
    ELSE UndoDone([board |-> g.history[Len(g.history)].board,
                   turn |-> g.turn,
                   history |-> Front(g.history)], TRUE)

\* undo(): state = history.pop()
undoXiangqi(g) ==
    IF Len(g.history) = 0 THEN UndoDone(g, FALSE)
    ELSE UndoDone([board |-> g.history[Len(g.history)].board,
                   turn |-> g.history[Len(g.history)].turn,
                   history |-> Front(g.history)], TRUE)

\* the decimal digits
Digits == <<"0", "1", "2", "3", "4", "5", "6", "7", "8", "9">>

\* a number appended to a string: its decimal numeral
RECURSIVE Numeral(_)
Numeral(n) ==
    IF n < 10 THEN <<Digits[n + 1]>> ELSE Numeral(n \div 10) \o <<Digits[(n % 10) + 1]>>

\* the loop of boardToFen over the cells of a row from column c on, with the
\* count of empty cells met
RECURSIVE RowFen(_, _, _)
RowFen(row, c, empty) ==
    IF c \notin DOMAIN row THEN (IF empty > 0 THEN Numeral(empty) ELSE <<>>)
    ELSE IF row[c] = Nil THEN RowFen(row, c + 1, empty + 1)
    ELSE (IF empty > 0 THEN Numeral(empty) ELSE <<>>) \o <<row[c]>> \o RowFen(row, c + 1, 0)

\* rows.join('/') from row r on
RECURSIVE RowsFen(_, _)
RowsFen(board, r) ==
    IF r \notin DOMAIN board THEN <<>>
    ELSE RowFen(board[r], 0, 0)
         \o (IF r + 1 \in DOMAIN board THEN <<"/">> ELSE <<>>)
         \o RowsFen(board, r + 1)

\* fen(): boardToFen(state.board, state.turn)
fenXiangqi(g) == RowsFen(g.board, 0) \o <<" ", g.turn>>

\* ------------------------------------------------------------------ the Chess engine

\* parseFen(INITIAL_FEN).board for
\* 'rnbqkbnr/pppppppp/8/8/8/8/PPPPPPPP/RNBQKBNR w KQkq - 0 1'
ChessInitialBoard ==
    BoardOf(<< <<"r", "n", "b", "q", "k", "b", "n", "r">>,
               <<"p", "p", "p", "p", "p", "p", "p", "p">>,
               <<Nil, Nil, Nil, Nil, Nil, Nil, Nil, Nil>>,
               <<Nil, Nil, Nil, Nil, Nil, Nil, Nil, Nil>>,
               <<Nil, Nil, Nil, Nil, Nil, Nil, Nil, Nil>>,
               <<Nil, Nil, Nil, Nil, Nil, Nil, Nil, Nil>>,
               <<"P", "P", "P", "P", "P", "P", "P", "P">>,
               <<"R", "N", "B", "Q", "K", "B", "N", "R">> >>)

\* p && p === p.toUpperCase()
isWhite(p) == p # Nil /\ p = UpperCaseOf[p]

inBounds(r, c) == r >= 0 /\ r <= 7 /\ c >= 0 /\ c <= 7

\* the eight jumps of the knight
KnightJumps ==
    {<<-2, -1>>, <<-2, 1>>, <<-1, -2>>, <<-1, 2>>, <<1, -2>>, <<1, 2>>, <<2, -1>>, <<2, 1>>}

\* the closure add of getCandidateMoves, as far as it pushes a move
AddChess(board, piece, nr, nc) ==
    IF inBounds(nr, nc) /\ ~sameColor(piece, board[nr][nc]) THEN {<<nr, nc>>} ELSE {}

\* the while loop of a sliding piece along one direction
RECURSIVE Slide(_, _, _, _, _, _)
Slide(board, piece, nr, nc, dr, dc) ==
    IF ~inBounds(nr, nc) THEN {}
    ELSE IF sameColor(piece, board[nr][nc]) THEN {}
    ELSE IF board[nr][nc] # Nil THEN {<<nr, nc>>}
    ELSE {<<nr, nc>>} \cup Slide(board, piece, nr + dr, nc + dc, dr, dc)

\* getCandidateMoves(board, state, r, c, true): all but castling
CandidatesSkipCastling(board, state, r, c) ==
    LET piece == board[r][c]
        p == LowerCaseOf[piece]
        white == isWhite(piece)
        dir == IF white THEN -1 ELSE 1
        startRow == IF white THEN 6 ELSE 1
    IN  IF piece = Nil THEN {}
        ELSE (IF p \in {"r", "q"}
              THEN UNION {Slide(board, piece, r + d[1], c + d[2], d[1], d[2]) : d \in Orthogonal}
              ELSE {})
             \cup
             (IF p \in {"b", "q"}
              THEN UNION {Slide(board, piece, r + d[1], c + d[2], d[1], d[2]) : d \in Diagonal}
              ELSE {})
             \cup
             (IF p = "n"
              THEN UNION {AddChess(board, piece, r + d[1], c + d[2]) : d \in KnightJumps}
              ELSE {})
             \cup
             (IF p = "p"
              THEN (IF inBounds(r + dir, c) /\ board[r + dir][c] = Nil
                    THEN {<<r + dir, c>>}
                         \cup (IF r = startRow /\ board[r + 2 * dir][c] = Nil
                               THEN {<<r + 2 * dir, c>>}
                               ELSE {})
                    ELSE {})
                   \cup
                   {<<r + dir, c + dc>> :
                      dc \in {x \in {-1, 1} :
                                /\ inBounds(r + dir, c + x)
                                /\ \/ /\ board[r + dir][c + x] # Nil
                                      /\ ~sameColor(piece, board[r + dir][c + x])
                                   \/ state.enPassant = <<r + dir, c + x>>}}
              ELSE {})
             \cup
             (IF p = "k"
              THEN UNION {AddChess(board, piece, r + d[1], c + d[2]) : d \in Orthogonal \cup Diagonal}
              ELSE {})

\* isSquareAttacked(board, state, r, c, byWhite)
isSquareAttacked(board, state, r, c, byWhite) ==
    LET noEpState == [state EXCEPT !.enPassant = <<>>]
    IN  \E sq \in Occupied(board) :
            /\ isWhite(board[sq[1]][sq[2]]) = byWhite
            /\ <<r, c>> \in CandidatesSkipCastling(board, noEpState, sq[1], sq[2])

\* the castling branch of getCandidateMoves
CastlingMoves(board, state, r, c) ==
    LET piece == board[r][c]
        white == isWhite(piece)
        backRank == IF white THEN 7 ELSE 0
    IN  IF piece # Nil /\ LowerCaseOf[piece] = "k" /\ r = backRank /\ c = 4
        THEN (IF /\ (IF white THEN state.castling.K ELSE state.castling.k)
                 /\ board[backRank][5] = Nil
                 /\ board[backRank][6] = Nil
                 /\ ~isSquareAttacked(board, state, backRank, 4, ~white)
                 /\ ~isSquareAttacked(board, state, backRank, 5, ~white)
                 /\ ~isSquareAttacked(board, state, backRank, 6, ~white)
              THEN {<<backRank, 6>>}
              ELSE {})
             \cup
             (IF /\ (IF white THEN state.castling.Q ELSE state.castling.q)
                 /\ board[backRank][3] = Nil
                 /\ board[backRank][2] = Nil
                 /\ board[backRank][1] = Nil
                 /\ ~isSquareAttacked(board, state, backRank, 4, ~white)
                 /\ ~isSquareAttacked(board, state, backRank, 3, ~white)
                 /\ ~isSquareAttacked(board, state, backRank, 2, ~white)
              THEN {<<backRank, 2>>}
              ELSE {})
        ELSE {}

\* getCandidateMoves(board, state, r, c, skipCastling)
getCandidateMoves(board, state, r, c, skipCastling) ==
    CandidatesSkipCastling(board, state, r, c)
    \cup (IF skipCastling THEN {} ELSE CastlingMoves(board, state, r, c))

\* the castling right a move from or to the cell takes away, "" for none
rookSquares(r, c) ==
    IF r = 7 /\ c = 7 THEN "K"
    ELSE IF r = 7 /\ c = 0 THEN "Q"
    ELSE IF r = 0 /\ c = 7 THEN "k"
    ELSE IF r = 0 /\ c = 0 THEN "q"
    ELSE ""

\* applyMove(state, from, to, promotion); the history is kept by move()
applyMoveChess(state, from, to, promotion) ==
    LET fr == from[1]
        fc == from[2]
        tr == to[1]
        tc == to[2]
        piece == state.board[fr][fc]
        p == LowerCaseOf[piece]
        white == isWhite(piece)
        b1 == IF p = "p" /\ state.enPassant = <<tr, tc>>
              THEN [state.board EXCEPT ![fr][tc] = Nil]
              ELSE state.board
        b2 == IF p = "k" /\ fc = 4 /\ tc = 6
              THEN [[b1 EXCEPT ![fr][5] = b1[fr][7]] EXCEPT ![fr][7] = Nil]
              ELSE b1
        b3 == IF p = "k" /\ fc = 4 /\ tc = 2
              THEN [[b2 EXCEPT ![fr][3] = b2[fr][0]] EXCEPT ![fr][0] = Nil]
              ELSE b2
        b4 == [[b3 EXCEPT ![tr][tc] = b3[fr][fc]] EXCEPT ![fr][fc] = Nil]
        promPiece == IF promotion # Nil THEN promotion ELSE IF white THEN "Q" ELSE "q"
        b5 == IF p = "p" /\ (tr = 0 \/ tr = 7)
              THEN [b4 EXCEPT ![tr][tc] = IF white THEN UpperCaseOf[promPiece]
                                          ELSE LowerCaseOf[promPiece]]
              ELSE b4
        lost == {IF p = "k" /\ white THEN "K" ELSE "", IF p = "k" /\ white THEN "Q" ELSE "",
                 IF p = "k" /\ ~white THEN "k" ELSE "", IF p = "k" /\ ~white THEN "q" ELSE "",
                 rookSquares(fr, fc), rookSquares(tr, tc)}
    IN  [board |-> b5,
         turn |-> IF white THEN "b" ELSE "w",
         castling |-> [side \in DOMAIN state.castling |->
                          state.castling[side] /\ side \notin lost],
         enPassant |-> IF p = "p" /\ Abs(tr - fr) = 2 THEN <<(fr + tr) \div 2, tc>> ELSE <<>>,
         halfmove |-> IF p = "p" \/ state.board[tr][tc] # Nil THEN 0 ELSE state.halfmove + 1,
         fullmove |-> IF ~white THEN state.fullmove + 1 ELSE state.fullmove]

\* findKing(board, white); <<>> stands for null
findKingChess(board, white) ==
    LET found == CellsWith(board, IF white THEN "K" ELSE "k")
    IN  IF found = {} THEN <<>> ELSE FirstCell(found)

\* isInCheck(board, state, white)
isInCheckChess(board, state, white) ==
    LET king == findKingChess(board, white)
    IN  /\ king # <<>>
        /\ isSquareAttacked(board, state, king[1], king[2], ~white)

\* the filter of legalMovesFor on one candidate
LeavesKingSafe(board, state, r, c, to) ==
    LET piece == board[r][c]
        white == isWhite(piece)
        promotion == IF LowerCaseOf[piece] = "p" /\ (to[1] = 0 \/ to[1] = 7)
                     THEN (IF white THEN "Q" ELSE "q")
                     ELSE Nil
        newState == applyMoveChess(state, <<r, c>>, to, promotion)
    IN  ~isInCheckChess(newState.board, newState, white)

\* legalMovesFor(board, state, r, c)
legalMovesFor(board, state, r, c) ==
    IF board[r][c] = Nil THEN {}
    ELSE {to \in getCandidateMoves(board, state, r, c, FALSE) :
            LeavesKingSafe(board, state, r, c, to)}

\* parseFen(INITIAL_FEN), and the empty history of createGame()
createChessGame ==
    [board |-> ChessInitialBoard,
     turn |-> "w",
     castling |-> [K |-> TRUE, Q |-> TRUE, k |-> TRUE, q |-> TRUE],
     enPassant |-> <<>>,
     halfmove |-> 0,
     fullmove |-> 1,
     history |-> <<>>]

\* the fields of the engine's state, without the history beside it
ChessFields == {"board", "turn", "castling", "enPassant", "halfmove", "fullmove"}

\* cloneState(state)
cloneState(g) == [f \in ChessFields |-> g[f]]

\* move(from, to, promotion)
moveChess(g, from, to, promotion) ==
    LET piece == g.board[from[1]][from[2]]
        white == g.turn = "w"
        prom == IF promotion = Nil THEN Nil
                ELSE IF white THEN UpperCaseOf[promotion] ELSE LowerCaseOf[promotion]
        applied == applyMoveChess(cloneState(g), from, to, prom)
    IN  IF piece = Nil THEN MoveRefused(g, from, to, promotion, "No piece at source")
        ELSE IF isWhite(piece) # white THEN MoveRefused(g, from, to, promotion, "Not your piece")
        ELSE IF to \notin legalMovesFor(g.board, cloneState(g), from[1], from[2])
        THEN MoveRefused(g, from, to, promotion, "Illegal move")
        ELSE [g |-> [f \in ChessFields \cup {"history"} |->
                        IF f = "history" THEN Append(g.history, cloneState(g))
                        ELSE applied[f]],
              ret |-> [op |-> "move", from |-> from, to |-> to, promotion |-> promotion, ok |-> TRUE,
                       reason |-> ""]]

\* undo(): state = history.pop()
undoChess(g) ==
    IF Len(g.history) = 0 THEN UndoDone(g, FALSE)
    ELSE UndoDone([f \in ChessFields \cup {"history"} |->
                      IF f = "history" THEN Front(g.history)
                      ELSE g.history[Len(g.history)][f]], TRUE)

\* 'abcdefgh'
Files == <<"a", "b", "c", "d", "e", "f", "g", "h">>

\* fen(): boardToFen(board, turn, castling, enPassant, halfmove, fullmove)
fenChess(g) ==
    LET rights == (IF g.castling.K THEN <<"K">> ELSE <<>>)
                  \o (IF g.castling.Q THEN <<"Q">> ELSE <<>>)
                  \o (IF g.castling.k THEN <<"k">> ELSE <<>>)
                  \o (IF g.castling.q THEN <<"q">> ELSE <<>>)
        castlingStr == IF rights = <<>> THEN <<"-">> ELSE rights
        epStr == IF g.enPassant = <<>> THEN <<"-">>
                 ELSE <<Files[g.enPassant[2] + 1]>> \o Numeral(8 - g.enPassant[1])
    IN  RowsFen(g.board, 0) \o <<" ", g.turn, " ">> \o castlingStr \o <<" ">> \o epStr
        \o <<" ">> \o Numeral(g.halfmove) \o <<" ">> \o Numeral(g.fullmove)

\* ------------------------------------------------------------------ Xiangqi and Chess games

\* the moves asked of the Xiangqi engine: the centre pawns, the a-pawn, a
\* cannon to the centre file, the generals and an advisor, a chariot onto
\* its own horse, and an empty cell
XiangqiMoves ==
    { <<<<6, 4>>, <<5, 4>>>>, <<<<5, 4>>, <<4, 4>>>>, <<<<4, 4>>, <<4, 3>>>>,
      <<<<4, 4>>, <<3, 4>>>>, <<<<3, 4>>, <<4, 4>>>>, <<<<3, 0>>, <<4, 0>>>>,
      <<<<7, 1>>, <<7, 4>>>>, <<<<0, 4>>, <<1, 4>>>>, <<<<0, 3>>, <<1, 4>>>>,
      <<<<9, 4>>, <<8, 4>>>>, <<<<9, 0>>, <<9, 1>>>>, <<<<4, 8>>, <<5, 8>>>> }

XiangqiMove(from, to) ==
    /\ xiangqi # NoBoard
    /\ Len(xiangqi.history) < MaxXiangqiPly
    /\ LET r == moveXiangqi(xiangqi, from, to)
       IN  /\ xiangqi' = r.g
           /\ xiangqiRet' = r.ret
    /\ UNCHANGED <<dispatcherVars, engineVars, comboVars, rateVars, bingoVars, boggleVars, chessVars, recordVars>>

XiangqiMoveStep == \E m \in XiangqiMoves : XiangqiMove(m[1], m[2])

\* the moves asked of the Chess engine, with the promotion piece sent along:
\* the a-pawn that takes its way to a8 (a4, axb5, bxa6, axb7, bxa8) with the
\* black moves that let it (b5, a6, Bb7, Nc6), the king's pawn and the queen
\* to h5 against the pawn on f7 (e4, Qh5, f6), and an empty cell
ChessMoves ==
    { <<<<6, 0>>, <<4, 0>>, Nil>>, <<<<1, 1>>, <<3, 1>>, Nil>>, <<<<4, 0>>, <<3, 1>>, Nil>>,
      <<<<1, 0>>, <<2, 0>>, Nil>>, <<<<3, 1>>, <<2, 0>>, Nil>>, <<<<0, 2>>, <<1, 1>>, Nil>>,
      <<<<2, 0>>, <<1, 1>>, Nil>>, <<<<0, 1>>, <<2, 2>>, Nil>>, <<<<1, 1>>, <<0, 0>>, Nil>>,
      <<<<1, 1>>, <<0, 0>>, "k">>,
      <<<<6, 4>>, <<4, 4>>, Nil>>, <<<<7, 3>>, <<3, 7>>, Nil>>, <<<<1, 5>>, <<2, 5>>, Nil>>,
      <<<<4, 7>>, <<3, 7>>, Nil>> }

ChessMove(from, to, promotion) ==
    /\ chess # NoBoard
    /\ Len(chess.history) < MaxChessPly
    /\ LET r == moveChess(chess, from, to, promotion)
       IN  /\ chess' = r.g
           /\ chessRet' = r.ret
    /\ UNCHANGED <<dispatcherVars, engineVars, comboVars, rateVars, bingoVars, boggleVars, xiangqiVars, recordVars>>

ChessMoveStep == \E m \in ChessMoves : ChessMove(m[1], m[2], m[3])

\* moves asked of the Xiangqi engine that keep to the zones and that try to
\* leave them: the elephants to the river and across it, the advisors and the
\* generals about their palaces and out of them
ZoneMoves ==
    { <<<<9, 2>>, <<7, 4>>>>, <<<<7, 4>>, <<5, 2>>>>, <<<<5, 2>>, <<3, 0>>>>,
      <<<<5, 2>>, <<3, 4>>>>,
      <<<<0, 2>>, <<2, 4>>>>, <<<<2, 4>>, <<4, 2>>>>, <<<<4, 2>>, <<6, 0>>>>,
      <<<<0, 3>>, <<1, 4>>>>, <<<<0, 3>>, <<1, 2>>>>, <<<<1, 4>>, <<2, 3>>>>,
      <<<<9, 3>>, <<8, 4>>>>, <<<<9, 5>>, <<8, 6>>>>,
      <<<<0, 4>>, <<1, 4>>>>, <<<<1, 4>>, <<1, 3>>>>, <<<<1, 3>>, <<1, 2>>>>,
      <<<<9, 4>>, <<8, 4>>>>, <<<<8, 4>>, <<8, 3>>>>, <<<<8, 3>>, <<8, 2>>>> }

ZoneMoveStep == \E m \in ZoneMoves : XiangqiMove(m[1], m[2])

InitZones ==
    /\ InitDispatcher({}, {})
    /\ cdi = NoGame
    /\ ret = NoRet
    /\ trial = NoTrial
    /\ InitLimiter
    /\ InitRecords
    /\ InitBingoIdle
    /\ InitBoggleIdle
    /\ xiangqi = createXiangqiGame
    /\ xiangqiRet = NoMoveRet
    /\ InitChessIdle

NextZones == ZoneMoveStep

SpecZones == InitZones /\ [][NextZones]_vars

XiangqiUndoStep ==
    /\ xiangqi # NoBoard
    /\ LET r == undoXiangqi(xiangqi)
       IN  /\ xiangqi' = r.g
           /\ xiangqiRet' = r.ret
    /\ UNCHANGED <<dispatcherVars, engineVars, comboVars, rateVars, bingoVars, boggleVars, chessVars, recordVars>>

ChessUndoStep ==
    /\ chess # NoBoard
    /\ LET r == undoChess(chess)
       IN  /\ chess' = r.g
           /\ chessRet' = r.ret
    /\ UNCHANGED <<dispatcherVars, engineVars, comboVars, rateVars, bingoVars, boggleVars, xiangqiVars, recordVars>>

\* one engine is made, of either family
InitBoards ==
    /\ InitDispatcher({}, {})
    /\ cdi = NoGame
    /\ ret = NoRet
    /\ trial = NoTrial
    /\ InitLimiter
    /\ InitRecords
    /\ InitBingoIdle
    /\ InitBoggleIdle
    /\ \/ /\ xiangqi = createXiangqiGame
          /\ chess = NoBoard
       \/ /\ xiangqi = NoBoard
          /\ chess = createChessGame
    /\ xiangqiRet = NoMoveRet
    /\ chessRet = NoMoveRet

NextBoards == XiangqiMoveStep \/ ChessMoveStep

SpecBoards == InitBoards /\ [][NextBoards]_vars

\* the chess moves that are made and taken back: a double step and an en
\* passant capture (e4, e5, f5, exf6), a capture and a recapture (d5, exd5,
\* Qxd5), and moves of a knight, a king and a rook (Nc6, Ke2, Rb8)
ReplayMoves ==
    { <<<<6, 4>>, <<4, 4>>>>, <<<<4, 4>>, <<3, 4>>>>, <<<<1, 5>>, <<3, 5>>>>,
      <<<<3, 4>>, <<2, 5>>>>, <<<<1, 3>>, <<3, 3>>>>, <<<<4, 4>>, <<3, 3>>>>,
      <<<<0, 3>>, <<3, 3>>>>, <<<<0, 1>>, <<2, 2>>>>, <<<<7, 4>>, <<6, 4>>>>,
      <<<<0, 0>>, <<0, 1>>>> }

ChessReplayStep ==
    /\ chess # NoBoard
    /\ Len(chess.history) < MaxUndoPly
    /\ \E m \in ReplayMoves : ChessMove(m[1], m[2], Nil)

NextUndo == XiangqiMoveStep \/ ChessReplayStep \/ XiangqiUndoStep \/ ChessUndoStep

SpecUndo == InitBoards /\ [][NextUndo]_vars

\* ------------------------------------------------------------------ properties

\* the seats and spectator entries, over all rooms, that hold socket c
Bindings(c) ==
    UNION { {<<r, "seat", i>> : i \in {j \in 1..Len(rooms[r].players) :
                                        rooms[r].players[j].socketId = c}}
            \cup {<<r, "spectator", i>> : i \in {j \in 1..Len(rooms[r].spectators) :
                                        rooms[r].spectators[j].socketId = c}}
            : r \in DOMAIN rooms }

\* the family a room was created for, read off its colour set
FamilyOf(room) ==
    IF room.colors[1] = "white" THEN "chess"
    ELSE IF room.colors[1] = "south" THEN "chordaidi"
    ELSE IF room.colors[1] = "caller" THEN "bingo"
    ELSE "xiangqi"

\* the colour of the side to move: the room's first colour on 'w', black on 'b'
SideToMove(r) == IF engines[r].turn = "w" THEN rooms[r].colors[1] ELSE "black"

\* C1: in a Big Two room the first four distinct names are seated, so a
\* spectator entry exists only once all four seats south, west, north, east
\* are taken.
C1_BigTwoSeatsFour ==
    \A r \in DOMAIN rooms :
        (rooms[r].colors = CDI_COLORS /\ rooms[r].spectators # <<>>)
            => Len(rooms[r].players) = Len(CDI_COLORS)

\* C2: joinRoom under the name of an existing seat rebinds that seat to the
\* joining socket and answers joined{that seat's colour, reconnected: true};
\* the number of seats, their names and colours, and the spectators stay.
C2_RejoinRebindsSeat ==
    [][\A c \in DOMAIN sock, r \in DOMAIN rooms, raw \in RawNames :
          LET i == SeatOfName(rooms[r], NormaliseName(raw))
          IN  (~BlankName(raw) /\ i # 0 /\ HandleJoin(c, r, raw, TRUE, "xiangqi", FALSE, 1))
              => /\ rooms'[r].players[i].socketId = c
                 /\ out'.events[1] = ToSock(c, "joined", rooms[r].players[i].color, "true")
                 /\ Len(rooms'[r].players) = Len(rooms[r].players)
                 /\ \A j \in 1..Len(rooms[r].players) :
                       /\ rooms'[r].players[j].name = rooms[r].players[j].name
                       /\ rooms'[r].players[j].color = rooms[r].players[j].color
                       /\ j # i => rooms'[r].players[j].socketId = rooms[r].players[j].socketId
                 /\ rooms'[r].spectators = rooms[r].spectators]_vars

\* C2 witness: a seat left by its socket was taken back by name on another socket.
C2_Witness ==
    /\ Len(out.events) = 2
    /\ out.events[1].ev = "joined" /\ out.events[1].a2 = "true"
    /\ \E c \in DOMAIN sock : ~sock[c].open
    /\ \E r \in DOMAIN rooms : \E i \in 1..Len(rooms[r].players) :
          rooms[r].players[i].socketId = out.by /\ rooms[r].spectators # <<>>

\* C3: once every seat of a room has lost its connection, the room is
\* eventually deleted or a seat is connected again.
C3_AbandonedRoomGoes ==
    \A r \in RoomIds :
        (r \in DOMAIN rooms /\ rooms[r].players # <<>> /\ ~HasActive(rooms[r]))
            ~> (r \notin DOMAIN rooms \/ HasActive(rooms[r]))

\* C4: a room's deletion timer is pending only while no seat of the room
\* holds a connection.
C4_TimerOnlyWhenEmpty ==
    \A r \in DOMAIN rooms : rooms[r].deleteTimer = "pending" => ~HasActive(rooms[r])

\* C5: a room leaves the room table only by its deletion timer firing while
\* no seat of it holds a connection.
C5_DeletedOnlyWhenEmpty ==
    [][\A r \in DOMAIN rooms :
          r \notin DOMAIN rooms' => (DeleteTimerFire(r) /\ ~HasActive(rooms[r]))]_vars

\* C5 witness: the one room was created, abandoned and deleted by its timer.
C5_Witness == created = 1 /\ rooms = << >>

\* C6: a socket is bound to at most one seat or spectator entry over all
\* rooms, and to none once it has disconnected.
C6_OneBindingPerSocket ==
    \A c \in DOMAIN sock :
        /\ Cardinality(Bindings(c)) <= 1
        /\ ~sock[c].open => Bindings(c) = {}

\* C7: an engine appears in a room only by a start_game of the socket that
\* holds seat 0 of that room.
C7_OnlyHostStarts ==
    [][\A r \in DOMAIN rooms :
          (r \notin DOMAIN engines /\ r \in DOMAIN engines')
            => \E c \in DOMAIN sock :
                  /\ StartGame(c)
                  /\ sock[c].roomId = r
                  /\ rooms[r].players[1].socketId = c
                  /\ sock[c].color = rooms[r].colors[1]]_vars

\* the colour of the side that is not to move
SideNotToMove(r) == IF engines[r].turn = "w" THEN "black" ELSE rooms[r].colors[1]

\* C8: in a chess or xiangqi room a make_move changes the engine only when the
\* sender's recorded colour is the side to move; from any other socket it is
\* answered invalid_move 'Not your turn' and the engine stays as it was. As a
\* state predicate over the handler that ran last: an accepted make_move (the
\* turn has flipped since) came from the colour that is no longer to move, and
\* a make_move of any other colour than the side to move has drawn exactly
\* 'Not your turn'.
C8_MoveOnlyOnTurn ==
    LET c == out.by
        r == sock[c].roomId
    IN  (/\ out.ev = "make_move"
         /\ r \in DOMAIN rooms /\ r \in DOMAIN engines
         /\ FamilyOf(rooms[r]) \in TwoPlayerKinds)
        => IF out.events = <<ToRoom(r, "game_state", PayloadWinner(engines[r]), "")>>
           THEN sock[c].color = SideNotToMove(r)
           ELSE sock[c].color # SideToMove(r)
                    => out.events = <<ToSock(c, "invalid_move", "Not your turn", "")>>

\* C8 witness: both sides have moved, and a spectator's make_move was turned
\* away with 'Not your turn'.
C8_Witness ==
    /\ out.ev = "make_move"
    /\ out.events = <<ToSock(out.by, "invalid_move", "Not your turn", "")>>
    /\ sock[out.by].color = "spectator"
    /\ sock[out.by].roomId \in DOMAIN engines
    /\ engines[sock[out.by].roomId].hist = 2

\* C9: the engine map holds no engine that reports game over.
C9_NoFinishedEngine == \A r \in DOMAIN engines : ~EngineOver(engines[r])

\* C10: every engine running in a room is of the family the room was
\* created for.
C10_FamilyFixed ==
    \A r \in (DOMAIN engines) \cap (DOMAIN rooms) : engines[r].kind = FamilyOf(rooms[r])

\* ------------------------------------------------------------------ Big Two properties

\* the ids a list holds
IdsOf(list) == {list[i] : i \in 1..Len(list)}

\* the colours a receiver of a payload can hold
ReceiverColors == IdsOf(CDI_COLORS) \cup {"spectator"}

\* the card ids a payload carries outside the table combo
PayloadHandIds(p) == IdsOf(p.myHand)

\* the engine with every hand but that of `seat` blanked, sizes kept
Redacted(e, seat) ==
    [e EXCEPT !.hands = [s \in Seats |->
        IF s = seat THEN e.hands[s] ELSE [i \in 1..Len(e.hands[s]) |-> NoSeat]]]

\* C11: the payload built for a receiver carries as myHand exactly the hand of
\* the seat of the receiver's colour (nothing for a spectator), no card id of
\* another seat's hand anywhere, and is the same whatever the other hands hold.
C11_HandsStayPrivate ==
    \A color \in ReceiverColors :
        LET seat == IndexOf(CDI_COLORS, color)
            p == chordaidiPayload(cdi, color)
        IN  /\ p.myHand = IF seat >= 0 THEN cdi.hands[seat] ELSE <<>>
            /\ \A s \in Seats \ {seat} :
                  (PayloadHandIds(p) \cup IdsOf(p.tableCombo.cardIds)) \cap IdsOf(cdi.hands[s]) = {}
            /\ p = chordaidiPayload(Redacted(cdi, seat), color)

\* C11 witness: mid-game, a combo on the table, every seat still holding
\* cards, hands that differ.
C11_Witness ==
    /\ cdi # NoGame
    /\ cdi.tableCombo # NoCombo
    /\ Len(cdi.history) >= 2
    /\ \A s \in Seats : cdi.hands[s] # <<>>
    /\ chordaidiPayload(cdi, "south").myHand # chordaidiPayload(cdi, "west").myHand

\* the seat of the i-th colour of CDI_COLORS, as a colour
ColorOfSeat(s) == CDI_COLORS[s + 1]

\* the seats that made an accepted call
Acted(e) == {e.history[i].seat : i \in 1..Len(e.history)}

PlayedIds(e) == UNION {IdsOf(e.history[i].cardIds) : i \in 1..Len(e.history)}

\* how many times the hands hold id
HeldCount(e, id) ==
    Cardinality({<<s, i>> \in Seats \X (1..NumRanks) : i <= Len(e.hands[s]) /\ e.hands[s][i] = id})

\* C15: every card id of the deck is in exactly one place: once in one of the
\* four hands, or among the cards played to the table.
C15_CardsConserved ==
    cdi # NoGame =>
        \A id \in Cards : HeldCount(cdi, id) + (IF id \in PlayedIds(cdi) THEN 1 ELSE 0) = 1

\* the games createGame can return
NewGames == {createGame(deal(deck)) : deck \in Shuffles}

\* C16: the game starts with the holder of card 0 to act; the first accepted
\* call is a play that contains card 0; until then the engine is as created,
\* and a first play of cards of the hand that form a combo without card 0 is
\* refused with 'First play must include 3♦' and changes nothing.
C16_FirstPlay ==
    /\ [](cdi.history = <<>> => (cdi \in NewGames /\ InHand(cdi.hands[cdi.currentSeat], 0)))
    /\ [](cdi.history # <<>> => (~cdi.history[1].pass /\ InHand(cdi.history[1].cardIds, 0)))
    /\ [][cdi.history = <<>> =>
            \A cardIds \in PlayInputs(cdi, cdi.currentSeat) :
                (/\ EnginePlay(cdi.currentSeat, cardIds)
                 /\ IdsOf(cardIds) \subseteq IdsOf(cdi.hands[cdi.currentSeat])
                 /\ classifyCombo(cardIds) # NoCombo
                 /\ ~InHand(cardIds, 0))
                => (/\ ret' = [op |-> "play", ok |-> FALSE, reason |-> FirstPlayReason]
                    /\ cdi' = cdi)]_vars

\* C16 witness: a first play without card 0 has just been refused.
C16_Witness ==
    /\ cdi # NoGame
    /\ cdi.history = <<>>
    /\ ret = [op |-> "play", ok |-> FALSE, reason |-> FirstPlayReason]

\* the last entry of the history
LastCall(e) == e.history[Len(e.history)]

\* the entries of the history that are plays
PlayEntries(e) == {i \in 1..Len(e.history) : ~e.history[i].pass}

\* the seat of the last play of the history
LastPlayer(e) == e.history[CHOOSE i \in PlayEntries(e) : \A j \in PlayEntries(e) : j <= i].seat

\* C17: an accepted pass that is the third in a row since the last play clears
\* the table combo, resets the pass counter, gives the turn to the seat that
\* made that play and owned the table, and leaves the table without owner; an
\* earlier pass leaves combo and owner alone, counts, and passes the turn on.
C17_ThirdPassClears ==
    [][(cdi'.history # cdi.history /\ LastCall(cdi').pass) =>
          IF cdi.passCount = 2
          THEN /\ cdi'.tableCombo = NoCombo
               /\ cdi'.passCount = 0
               /\ cdi'.currentSeat = cdi.tableOwner
               /\ cdi.tableOwner = LastPlayer(cdi)
               /\ cdi'.tableOwner = NoSeat
          ELSE /\ cdi'.tableCombo = cdi.tableCombo /\ cdi.tableCombo # NoCombo
               /\ cdi'.tableOwner = cdi.tableOwner
               /\ cdi'.passCount = cdi.passCount + 1
               /\ cdi'.currentSeat = nextSeat(LastCall(cdi').seat)]_vars

\* C17 witness: a play, three passes, and the turn back with the player.
C17_Witness ==
    /\ cdi # NoGame
    /\ Len(cdi.history) >= 4
    /\ \A i \in (Len(cdi.history) - 2)..Len(cdi.history) : cdi.history[i].pass
    /\ ~cdi.history[Len(cdi.history) - 3].pass
    /\ cdi.currentSeat = cdi.history[Len(cdi.history) - 3].seat
    /\ cdi.tableCombo = NoCombo /\ cdi.tableOwner = NoSeat /\ cdi.passCount = 0

\* C18: while a game runs with a combo on the table the seat to act is not
\* the table's owner; and every accepted pass answered a play of another seat
\* that at most two passes had followed, so none was accepted on an empty
\* table or from the owner.
C18_NoPassByOwner ==
    cdi # NoGame =>
        /\ (~isGameOver(cdi) /\ cdi.tableCombo # NoCombo) => cdi.currentSeat # cdi.tableOwner
        /\ \A i \in 1..Len(cdi.history) :
              cdi.history[i].pass =>
                 \E j \in 1..(i - 1) :
                    /\ ~cdi.history[j].pass
                    /\ \A k \in (j + 1)..(i - 1) : cdi.history[k].pass
                    /\ i - j <= 3
                    /\ cdi.history[j].seat # cdi.history[i].seat

\* C18 witness: the owner's pass was refused while its combo lay on the table.
C18_Witness ==
    /\ cdi # NoGame
    /\ cdi.tableCombo # NoCombo /\ ~isGameOver(cdi)
    /\ cdi.passCount = 2
    /\ ret = [op |-> "pass", ok |-> FALSE, reason |-> "Not your turn"]

\* C19: the game is over exactly when a hand is empty; the winner is the seat
\* whose play, the last call accepted, emptied its hand; once over, every play
\* and pass returns 'Game over' and the engine, winner included, stays as it is.
C19_WinEndsGame ==
    /\ [](cdi # NoGame => (isGameOver(cdi) <=> \E s \in Seats : cdi.hands[s] = <<>>))
    /\ [](cdi # NoGame /\ isGameOver(cdi) =>
            /\ cdi.hands[cdi.winnerSeat] = <<>>
            /\ ~LastCall(cdi).pass /\ LastCall(cdi).seat = cdi.winnerSeat)
    /\ [][(cdi # NoGame /\ isGameOver(cdi)) =>
            (cdi' = cdi /\ ~ret'.ok /\ ret'.reason = "Game over")]_vars

\* C19 witness: the game is over and a pass has been refused since.
C19_Witness ==
    /\ cdi # NoGame
    /\ isGameOver(cdi)
    /\ ret = [op |-> "pass", ok |-> FALSE, reason |-> "Game over"]

\* the highest card of a list
HighestId(list) == CHOOSE x \in IdsOf(list) : \A y \in IdsOf(list) : y <= x

\* the five-card types from weakest to strongest
FiveCardOrder == <<"straight", "flush", "fullhouse", "quads", "straightflush">>

C13_AtMostTenPerWindow ==
    \A ip \in DOMAIN admitted :
        Len(admitted[ip]) = JoinLimit + 1 =>
            admitted[ip][JoinLimit + 1] - admitted[ip][1] >= WindowMs

\* the last handler was one of the followed commands and refused it: it told
\* someone of an error or an invalid move
RefusalShown(o) ==
    /\ o.ev \in Refusable
    /\ \E i \in 1..Len(o.events) : o.events[i].ev \in {"error", "invalid_move"}

ElemsOf(list) == {list[i] : i \in 1..Len(list)}

NoRepeat(list) == \A i, j \in 1..Len(list) : list[i] = list[j] => i = j

\* C21: the called list holds only numbers of 1..75, none twice; the pool and
\* the called list share no number and together hold exactly 1..75.
C21_CalledAndPool ==
    bingo # NoBingo =>
        /\ ElemsOf(bingo.called) \subseteq 1..PoolSize
        /\ NoRepeat(bingo.called)
        /\ ElemsOf(bingo.pool) \cap ElemsOf(bingo.called) = {}
        /\ ElemsOf(bingo.pool) \cup ElemsOf(bingo.called) = 1..PoolSize

\* C21 witness: the caller has drawn at least five numbers, the last one just now.
C21_Witness ==
    /\ bingo # NoBingo
    /\ Len(bingo.called) >= 5
    /\ bingoRet.ok
    /\ bingoRet.number = bingo.called[Len(bingo.called)]

\* C22: for every seat, a cell is marked exactly if it is the FREE centre or
\* its number has been called.
C22_MarkedIffCalled ==
    bingo # NoBingo =>
        \A p \in BingoSeats(bingo), r \in Lines, c \in Lines :
            bingo.marked[p][r][c] <=>
                \/ (r = FREE_ROW /\ c = FREE_COL)
                \/ bingo.cards[p][r][c] \in ElemsOf(bingo.called)

\* C22 witness: a number of the last column of a card has been called, and a
\* number that is on no card.
C22_Witness ==
    /\ bingo # NoBingo
    /\ \E p \in BingoSeats(bingo), r \in Lines : bingo.marked[p][r][CARD_SIZE - 1]
    /\ \E n \in ElemsOf(bingo.called) :
           \A p \in BingoSeats(bingo), r \in Lines, c \in Lines : bingo.cards[p][r][c] # n

\* the seat is in the winners list with the type among its types
WonWith(b, p, type) ==
    \E i \in 1..Len(b.winners) :
        b.winners[i].seat = p /\ type \in ElemsOf(b.winners[i].types)

\* C23: with the caller drawing on, a two-seat game comes to the point where
\* all 75 numbers are called and winners() holds both seats with fullhouse
\* among their types.
C23_AllCalledFullHouse ==
    <>(/\ Len(bingo.called) = PoolSize
       /\ \A p \in BingoSeats(bingo) : WonWith(bingo, p, "fullhouse"))

\* the last handler was a bingo_call that drew a number: it told the room the
\* new game state
DrewNumber(o) ==
    /\ o.ev = "bingo_call"
    /\ \E i \in 1..Len(o.events) : o.events[i].kind = "room" /\ o.events[i].ev = "game_state"

\* C24: in the dispatcher a bingo_call draws a number only when it comes from
\* the connection that holds the caller seat, the first seat of the room.
C24_OnlyCallerSeatDraws ==
    DrewNumber(out) =>
        LET r == sock[out.by].roomId
        IN  r \in DOMAIN rooms /\ rooms[r].players[1].socketId = out.by

\* the marks complete a row, a column or a main diagonal
LineComplete(marked) ==
    \/ \E r \in Lines : \A c \in Lines : marked[r][c]
    \/ \E c \in Lines : \A r \in Lines : marked[r][c]
    \/ \A i \in Lines : marked[i][i]
    \/ \A i \in Lines : marked[i][CARD_SIZE - 1 - i]

\* the seats of the winners list
WinnerSeats(b) == {b.winners[i].seat : i \in 1..Len(b.winners)}

\* C25: the game is over exactly if the winners list is not empty, exactly if
\* some seat's marks complete a row, a column or a main diagonal; the winners
\* list holds the seats whose marks complete a pattern, each once.
C25_OverIffWinner ==
    bingo # NoBingo =>
        /\ bingo.isGameOver <=> Len(bingo.winners) > 0
        /\ Len(bingo.winners) > 0 <=> \E p \in BingoSeats(bingo) : LineComplete(bingo.marked[p])
        /\ WinnerSeats(bingo) = {p \in BingoSeats(bingo) : LineComplete(bingo.marked[p])}
        /\ \A i, j \in 1..Len(bingo.winners) :
               bingo.winners[i].seat = bingo.winners[j].seat => i = j

\* C25 witness: one call completed a pattern for both seats.
C25_Witness ==
    /\ bingo # NoBingo
    /\ bingo.isGameOver
    /\ Len(bingoRet.newWinners) = 2
    /\ WinnerSeats(bingo) = {0, 1}

\* ------------------------------------------------------------------ Boggle properties

\* the round is running at the time of the clock
RoundRunning == boggle # NoBoggle /\ ~boggle.isGameOver /\ timeLeft(boggle, clock.now) > 0

\* C26: endRound is idempotent and freezes the results. The first endRound
\* returns the scores and words it stores; from then on every step leaves the
\* engine as it is, every endRound returns the stored scores and words, and
\* every submitWord is refused with 'Round is over'.
C26_EndRoundFreezes ==
    [][ /\ (boggle # NoBoggle /\ ~boggle.isGameOver /\ boggle'.isGameOver) =>
            /\ boggleRet'.op = "endRound"
            /\ boggleRet'.scores = boggle'.scores
            /\ boggleRet'.words = boggle'.words
        /\ (boggle # NoBoggle /\ boggle.isGameOver) =>
            /\ boggle' = boggle
            /\ boggleRet'.op = "endRound" =>
                 boggleRet'.scores = boggle.scores /\ boggleRet'.words = boggle.words
            /\ boggleRet'.op = "submitWord" =>
                 ~boggleRet'.ok /\ boggleRet'.reason = "Round is over" ]_vars

\* a submitWord was refused after endRound, with words of both seats frozen
C26_Witness ==
    /\ boggle # NoBoggle
    /\ boggle.isGameOver
    /\ boggleRet.op = "submitWord"
    /\ boggleRet.reason = "Round is over"
    /\ \A s \in BoggleSeats(boggle) : boggle.submissions[s] # {}

\* the point value of a word of n letters, as the scoring table gives it
PointValue(n) ==
    IF n \in {3, 4} THEN 1
    ELSE IF n = 5 THEN 2
    ELSE IF n = 6 THEN 3
    ELSE IF n = 7 THEN 5
    ELSE IF n >= 8 THEN 11
    ELSE 0

RECURSIVE SumUnique(_)
SumUnique(list) ==
    IF list = <<>> THEN 0
    ELSE (IF Head(list).unique THEN PointValue(Len(Head(list).word)) ELSE 0)
         + SumUnique(Tail(list))

\* C27: after endRound, the result list of a seat holds its submitted words,
\* a word is flagged unique iff exactly one seat submitted it, a word of two
\* or more seats scores 0, and the score of a seat is the sum of the point
\* values (3-4 letters 1, 5 letters 2, 6 letters 3, 7 letters 5, 8 or more
\* 11) of its unique words.
C27_UniqueScoring ==
    /\ \A n \in 3..MaxWordLen : scoreWord([i \in 1..n |-> "A"]) = PointValue(n)
    /\ (boggle # NoBoggle /\ boggle.isGameOver) =>
         \A s \in BoggleSeats(boggle) :
            LET list == boggle.words[s + 1]
                holders(w) == {t \in BoggleSeats(boggle) : w \in boggle.submissions[t]}
            IN  /\ {list[i].word : i \in 1..Len(list)} = boggle.submissions[s]
                /\ Len(list) = Cardinality(boggle.submissions[s])
                /\ \A i \in 1..Len(list) :
                    /\ list[i].unique <=> Cardinality(holders(list[i].word)) = 1
                    /\ Cardinality(holders(list[i].word)) >= 2 => list[i].score = 0
                    /\ list[i].unique => list[i].score = PointValue(Len(list[i].word))
                /\ boggle.scores[s + 1] = SumUnique(list)

\* a round ended with a shared word that scores 0 and unique words that score
C27_Witness ==
    /\ boggle # NoBoggle
    /\ boggle.isGameOver
    /\ \E w \in boggle.submissions[0] \cap boggle.submissions[1] : TRUE
    /\ boggle.scores[1] = 3
    /\ boggle.scores[2] = 2

\* String(word).toUpperCase().trim()
Normalised(payload) == Trim(toUpperCase(payload.chars))

\* a payload that spells a word the seat already holds
Duplicate(seat, payload) ==
    /\ boggle # NoBoggle
    /\ payload.type = "string"
    /\ Normalised(payload) \in boggle.submissions[seat]

\* a payload that spells a word another seat holds and this seat does not
HeldByOther(seat, payload) ==
    /\ boggle # NoBoggle
    /\ payload.type = "string"
    /\ Normalised(payload) \notin boggle.submissions[seat]
    /\ \E t \in BoggleSeats(boggle) \ {seat} : Normalised(payload) \in boggle.submissions[t]

\* what submitWord does with a duplicate, and with a word of another seat
DuplicateHandled(seat, payload) ==
    LET r == submitWord(boggle, seat, payload, clock.now)
    IN  /\ Duplicate(seat, payload) =>
            /\ ~r.ret.ok
            /\ r.ret.reason = "Already submitted"
            /\ r.g = boggle
            /\ endRound(r.g).ret.scores = endRound(boggle).ret.scores
        /\ HeldByOther(seat, payload) =>
            /\ r.ret.ok
            /\ r.g.submissions[seat] = boggle.submissions[seat] \cup {Normalised(payload)}

\* C28 as stated: in every state, submitWord of a word the seat already holds
\* fails with 'Already submitted' and changes nothing, and a word another
\* seat holds is accepted.
C28_DuplicateAlways ==
    boggle # NoBoggle =>
        \A seat \in BoggleSeats(boggle), payload \in WordPayloads : DuplicateHandled(seat, payload)

\* C28, amended: while the round is running (endRound not called, time left),
\* submitWord of a word the seat already holds fails with 'Already submitted'
\* and changes no submission set and no score, and a word another seat holds
\* is accepted.
C28_DuplicateWhileRunning ==
    RoundRunning =>
        \A seat \in BoggleSeats(boggle), payload \in WordPayloads : DuplicateHandled(seat, payload)

\* a duplicate was refused while the other seat holds the same word
C28_Witness ==
    /\ RoundRunning
    /\ boggleRet.op = "submitWord"
    /\ boggleRet.reason = "Already submitted"
    /\ \E w \in boggle.submissions[0] \cap boggle.submissions[1] : TRUE

\* ------------------------------------------------------------------ Xiangqi and Chess properties

\* the reasons move() gives for a refusal
MoveRefusals ==
    {"No piece at source", "Not your piece", "Illegal move", "Move leaves king in check"}

\* one call of move(): the engine before and after, and what the call returned
MoveRule(g, after, returned) ==
    returned.op = "move" =>
        IF returned.ok
        THEN /\ g.turn \in {"w", "b"}
             /\ after.turn \in {"w", "b"}
             /\ after.turn # g.turn
        ELSE /\ returned.reason \in MoveRefusals
             /\ after.board = g.board
             /\ after.turn = g.turn
             /\ after.history = g.history

\* C29: in chess and in xiangqi every accepted move flips turn() between w
\* and b, and every refused move (no piece at source, not your piece, illegal
\* move, move leaves king in check) leaves the board, the turn and the undo
\* history unchanged.
C29_TurnAlternates ==
    [][ /\ xiangqi # NoBoard => MoveRule(xiangqi, xiangqi', xiangqiRet')
        /\ chess # NoBoard => MoveRule(chess, chess', chessRet') ]_vars

\* in xiangqi a move was refused for the general's sake after four accepted
\* moves, with red to move again
C29_Witness ==
    /\ xiangqi # NoBoard
    /\ Len(xiangqi.history) = 4
    /\ xiangqi.turn = "w"
    /\ xiangqiRet.reason = "Move leaves king in check"

\* -1, 0 or 1
Sign(x) == IF x < 0 THEN -1 ELSE IF x > 0 THEN 1 ELSE 0

\* two cells on one row, column or diagonal
Aligned(a, b) ==
    /\ a # b
    /\ \/ a[1] = b[1]
       \/ a[2] = b[2]
       \/ Abs(a[1] - b[1]) = Abs(a[2] - b[2])

\* the cells strictly between two aligned cells
Between(a, b) ==
    {<<a[1] + i * Sign(b[1] - a[1]), a[2] + i * Sign(b[2] - a[2])>> :
        i \in 1..(Max(Abs(b[1] - a[1]), Abs(b[2] - a[2])) - 1)}

\* how many pieces stand strictly between two aligned cells
PiecesBetween(board, a, b) ==
    Cardinality({sq \in Between(a, b) : board[sq[1]][sq[2]] # Nil})

Straight(a, b) == a # b /\ (a[1] = b[1] \/ a[2] = b[2])

\* the rules of xiangqi: the piece on cell a attacks cell b
XiangqiAttacks(board, a, b) ==
    LET piece == board[a[1]][a[2]]
        kind == LowerCaseOf[piece]
        red == piece \in UpperSet
        dr == b[1] - a[1]
        dc == b[2] - a[2]
    IN  CASE kind = "r" -> Straight(a, b) /\ PiecesBetween(board, a, b) = 0
          [] kind = "c" -> Straight(a, b) /\ PiecesBetween(board, a, b) = 1
          [] kind = "n" ->
                \/ Abs(dr) = 2 /\ Abs(dc) = 1 /\ board[a[1] + Sign(dr)][a[2]] = Nil
                \/ Abs(dr) = 1 /\ Abs(dc) = 2 /\ board[a[1]][a[2] + Sign(dc)] = Nil
          [] kind = "p" ->
                \/ dc = 0 /\ dr = (IF red THEN -1 ELSE 1)
                \/ dr = 0 /\ Abs(dc) = 1 /\ (IF red THEN a[1] <= 4 ELSE a[1] >= 5)
          [] kind = "k" -> dc = 0 /\ dr # 0 /\ PiecesBetween(board, a, b) = 0
          [] kind = "a" ->
                /\ Abs(dr) = 1 /\ Abs(dc) = 1
                /\ b[2] \in 3..5
                /\ b[1] \in (IF red THEN 7..9 ELSE 0..2)
          [] kind = "b" ->
                /\ Abs(dr) = 2 /\ Abs(dc) = 2
                /\ board[a[1] + Sign(dr)][a[2] + Sign(dc)] = Nil
                /\ b[1] \in (IF red THEN 5..9 ELSE 0..4)
          [] OTHER -> FALSE

\* the rules of chess: the piece on cell a attacks cell b
ChessAttacks(board, a, b) ==
    LET piece == board[a[1]][a[2]]
        kind == LowerCaseOf[piece]
        white == piece \in UpperSet
        dr == b[1] - a[1]
        dc == b[2] - a[2]
    IN  CASE kind = "r" -> Straight(a, b) /\ PiecesBetween(board, a, b) = 0
          [] kind = "b" -> Aligned(a, b) /\ ~Straight(a, b) /\ PiecesBetween(board, a, b) = 0
          [] kind = "q" -> Aligned(a, b) /\ PiecesBetween(board, a, b) = 0
          [] kind = "n" -> {Abs(dr), Abs(dc)} = {1, 2}
          [] kind = "p" -> Abs(dc) = 1 /\ dr = (IF white THEN -1 ELSE 1)
          [] kind = "k" -> a # b /\ Abs(dr) <= 1 /\ Abs(dc) <= 1
          [] OTHER -> FALSE

\* the cells that hold a piece of the side
PiecesOf(board, upper) ==
    {sq \in Occupied(board) : (board[sq[1]][sq[2]] \in UpperSet) = upper}

\* a king or general of the side (upper case: red, white) is attacked
XiangqiKingAttacked(board, upper) ==
    \E k \in CellsWith(board, IF upper THEN "K" ELSE "k"), a \in PiecesOf(board, ~upper) :
        XiangqiAttacks(board, a, k)

ChessKingAttacked(board, upper) ==
    \E k \in CellsWith(board, IF upper THEN "K" ELSE "k"), a \in PiecesOf(board, ~upper) :
        ChessAttacks(board, a, k)

\* the two generals stand on one file with no piece between them
GeneralsFace(board) ==
    \E k \in CellsWith(board, "K"), o \in CellsWith(board, "k") :
        k[2] = o[2] /\ PiecesBetween(board, k, o) = 0

\* after every accepted move of the xiangqi engine the general of the side
\* that moved is not attacked, and the generals do not face each other
XiangqiKingSafe ==
    (xiangqi # NoBoard /\ Len(xiangqi.history) > 0) =>
        /\ ~XiangqiKingAttacked(xiangqi.board, xiangqi.turn = "b")
        /\ ~GeneralsFace(xiangqi.board)

\* after every accepted move of the chess engine the king of the side that
\* moved is not attacked
ChessKingSafe ==
    (chess # NoBoard /\ Len(chess.history) > 0) =>
        ~ChessKingAttacked(chess.board, chess.turn = "b")

\* C30: after every move accepted by the chess engine or the xiangqi engine,
\* the king or general of the side that just moved is not attacked by any
\* enemy piece; in xiangqi no position has the two generals on one file with
\* no piece between them.
C30_KingSafeAfterMove == XiangqiKingSafe /\ ChessKingSafe

\* C31: in every xiangqi position reached by accepted moves no elephant
\* stands on the opposite half of the river (red elephants on rows 5-9,
\* black on rows 0-4), and every advisor and general stands inside its own
\* palace (columns 3-5, rows 7-9 for red, rows 0-2 for black).
C31_ZonesKept ==
    xiangqi # NoBoard =>
        \A sq \in Occupied(xiangqi.board) :
            LET piece == xiangqi.board[sq[1]][sq[2]]
            IN  /\ piece = "B" => sq[1] \in 5..9
                /\ piece = "b" => sq[1] \in 0..4
                /\ piece \in {"A", "K"} => sq[1] \in 7..9 /\ sq[2] \in 3..5
                /\ piece \in {"a", "k"} => sq[1] \in 0..2 /\ sq[2] \in 3..5

\* a red elephant at the river was refused the step across it, with a black
\* advisor or general off its first cell
C31_Witness ==
    /\ xiangqi # NoBoard
    /\ xiangqi.board[5][2] = "B"
    /\ xiangqi.board[1][4] \in {"a", "k"}
    /\ xiangqiRet.reason = "Illegal move"
    /\ xiangqiRet.to = <<3, 0>>

\* one call of undo(): the engine before and after, what the call returned,
\* and the engine's fen() before, after, and of the entry on top of the history
UndoRule(g, after, returned, fenAfter, fenOfTop) ==
    returned.op = "undo" =>
        IF Len(g.history) = 0
        THEN ~returned.ok /\ after = g
        ELSE /\ returned.ok
             /\ fenAfter = fenOfTop
             /\ Len(after.history) = Len(g.history) - 1

\* the engine after as many undos as its history is long
RECURSIVE UndoAllXiangqi(_)
UndoAllXiangqi(g) == IF Len(g.history) = 0 THEN g ELSE UndoAllXiangqi(undoXiangqi(g).g)

RECURSIVE UndoAllChess(_)
UndoAllChess(g) == IF Len(g.history) = 0 THEN g ELSE UndoAllChess(undoChess(g).g)

\* C39: in chess and xiangqi an accepted move followed by undo() restores the
\* state before the move, fen() included; n accepted moves followed by n
\* undos restore the initial position; undo() with an empty history returns
\* false and changes nothing.
C39_UndoRoundTrip ==
    [][ /\ xiangqi # NoBoard =>
            /\ (xiangqiRet'.op = "move" /\ xiangqiRet'.ok) =>
                  /\ undoXiangqi(xiangqi').ret.ok
                  /\ undoXiangqi(xiangqi').g = xiangqi
                  /\ fenXiangqi(undoXiangqi(xiangqi').g) = fenXiangqi(xiangqi)
            /\ UndoRule(xiangqi, xiangqi', xiangqiRet', fenXiangqi(xiangqi'),
                        IF Len(xiangqi.history) = 0 THEN <<>>
                        ELSE fenXiangqi(xiangqi.history[Len(xiangqi.history)]))
            /\ fenXiangqi(UndoAllXiangqi(xiangqi')) = fenXiangqi(createXiangqiGame)
        /\ chess # NoBoard =>
            /\ (chessRet'.op = "move" /\ chessRet'.ok) =>
                  /\ undoChess(chess').ret.ok
                  /\ undoChess(chess').g = chess
                  /\ fenChess(undoChess(chess').g) = fenChess(chess)
            /\ UndoRule(chess, chess', chessRet', fenChess(chess'),
                        IF Len(chess.history) = 0 THEN <<>>
                        ELSE fenChess(chess.history[Len(chess.history)]))
            /\ fenChess(UndoAllChess(chess')) = fenChess(createChessGame) ]_vars

\* a chess move was undone back to the position after the double step f5,
\* with the en-passant target f6, after the king had moved
C39_Witness ==
    /\ chess # NoBoard
    /\ chessRet.op = "undo"
    /\ chessRet.ok
    /\ Len(chess.history) = 4
    /\ chess.enPassant = <<2, 5>>
    /\ chess.board[3][5] = "p"
    /\ ~chess.castling.K

\* ------------------------------------------------------------------ seat list properties

\* the seats of a room are well formed: seat i carries the i-th colour of the
\* room's colour set, and no colour and no name is carried twice
SeatsWellFormed(room) ==
    /\ Len(room.players) <= Len(room.colors)
    /\ \A i \in 1..Len(room.players) : room.players[i].color = room.colors[i]
    /\ \A i, j \in 1..Len(room.players) :
          i # j => /\ room.players[i].color # room.players[j].color
                   /\ room.players[i].name # room.players[j].name

\* the seats of `before` are still there in `after`, in their places, under
\* their names and colours
SeatsKept(before, after) ==
    /\ Len(after.players) >= Len(before.players)
    /\ \A i \in 1..Len(before.players) :
          /\ after.players[i].name = before.players[i].name
          /\ after.players[i].color = before.players[i].color

\* C33: in every room, seat i carries colour colors[i] of the room's colour
\* set, no two seats share a colour, no two seats share a name, and from one
\* state to the next a seat of a room that stays is neither removed nor moved
\* and keeps its name and colour.
C33_SeatListKept ==
    [][ /\ \A r \in DOMAIN rooms' : SeatsWellFormed(rooms'[r])
        /\ \A r \in (DOMAIN rooms) \cap (DOMAIN rooms') : SeatsKept(rooms[r], rooms'[r]) ]_vars

\* C33 witness: both seats of a room are taken, the first was left and taken
\* back by name on another socket, and a third name went to the spectators
C33_Witness ==
    \E r \in DOMAIN rooms :
        /\ Len(rooms[r].players) = SeatCap
        /\ rooms[r].spectators # <<>>
        /\ rooms[r].players[1].socketId # NoSocket
        /\ \E c \in DOMAIN sock : ~sock[c].open
        /\ SeatsWellFormed(rooms[r])

\* ------------------------------------------------------------------ map properties

\* C40: every room id that has an entry in the engine map or in the
\* family-tag map is the id of a room of the room table, also once the
\* deletion timer has removed a room whose game was running.
C40_MapsWithinRooms ==
    \A r \in (DOMAIN engines) \cup (DOMAIN roomGameTypes) : r \in DOMAIN rooms

\* the deletion timer removed a room whose engine was running: the engine and
\* the tag are still in their maps
C40_EngineOutlivesRoom ==
    \E r \in DOMAIN engines :
        /\ r \notin DOMAIN rooms
        /\ r \in DOMAIN roomGameTypes
        /\ ~EngineOver(engines[r])

\* ------------------------------------------------------------------ start_game properties

\* the seats a room of a family needs before its game starts
SeatsNeeded(family) == IF family = "chordaidi" THEN 4 ELSE 2

\* an engine that appears in a room appears in a room with the seats its
\* family needs
StartNeedsSeats ==
    \A r \in RoomIds :
        (r \notin DOMAIN engines /\ r \in DOMAIN engines')
            => /\ r \in DOMAIN rooms
               /\ Len(rooms[r].players) >= SeatsNeeded(FamilyOf(rooms[r]))

\* a start_game of a socket whose room has an engine leaves the engine map as
\* it was and emits nothing
RestartIgnored ==
    \A c \in DOMAIN sock :
        (/\ out'.ev = "start_game"
         /\ out'.by = c
         /\ sock[c].roomId \in DOMAIN engines)
            => /\ engines' = engines
               /\ \A i \in 1..Len(out'.events) : out'.events[i].ev # "game_started"

\* C34: start_game creates an engine only if the room has at least the seats
\* its family requires (4 for Big Two, 2 otherwise) and no engine is running
\* for the room; a start_game received while an engine exists leaves that
\* engine untouched and emits no game_started.
C34_StartOnlyWhenReady == [][StartNeedsSeats /\ RestartIgnored]_vars

\* ------------------------------------------------------------------ leaderboard properties

\* all wins of the store
RECURSIVE SumWins(_, _)
SumWins(st, keys) ==
    IF keys = {} THEN 0
    ELSE LET k == CHOOSE x \in keys : TRUE IN st[k] + SumWins(st, keys \ {k})

\* C35: the recordWin calls made for a room never exceed the engines started
\* in that room: a game ended by checkmate is not counted again by a later
\* resign, a repeated resign is not counted twice, and a resign with no
\* running game records nothing.
C35_OneWinPerGame ==
    /\ \A r \in RoomIds : TallyOf(r).recorded <= TallyOf(r).started
    /\ SumWins(store, DOMAIN store) <= SumWins([r \in DOMAIN tally |-> tally[r].started], DOMAIN tally)

\* a checkmate was recorded and the loser's resign recorded the same game again
C35_CountedTwice ==
    \E r \in DOMAIN tally :
        /\ tally[r].started = 1
        /\ tally[r].recorded = 2
        /\ \E k \in DOMAIN store : store[k] = 2

\* socket c holds a seat of a room whose engine is running
InRunningGame(c) ==
    LET r == sock[c].roomId
    IN  /\ r \in DOMAIN rooms
        /\ SeatedIn(rooms[r], c)
        /\ r \in DOMAIN engines
        /\ ~EngineOver(engines[r])

\* C36: a resign takes effect only when its sender holds a seat in a room with
\* a running engine, and the winner then announced is the seat of the other
\* colour; any other resign (a spectator's, or in a room whose game has not
\* started or has ended) emits no game_over and leaves the engine map and the
\* leaderboard as they were.
C36_ResignOnlyInGame ==
    [][\A c \in DOMAIN sock :
          (out'.ev = "resign" /\ out'.by = c)
            => LET r == sock[c].roomId
               IN  IF InRunningGame(c)
                   THEN /\ Len(out'.events) = 1
                        /\ out'.events[1].ev = "game_over"
                        /\ out'.events[1].a1 # sock[c].color
                        /\ SeatOfColor(rooms[r], out'.events[1].a1) # 0
                   ELSE /\ \A i \in 1..Len(out'.events) : out'.events[i].ev # "game_over"
                        /\ engines' = engines
                        /\ store' = store]_vars

\* a resign in a room with two seats and no engine announced a winner and put
\* a win on the leaderboard
C36_ResignWithoutGame ==
    /\ out.ev = "resign"
    /\ Len(out.events) = 1
    /\ out.events[1].ev = "game_over"
    /\ out.events[1].a1 # "null"
    /\ sock[out.by].roomId \in DOMAIN tally
    /\ tally[sock[out.by].roomId].started = 0
    /\ store # << >>

\* ------------------------------------------------------------------ commands of another family: properties

\* the step left the process up, the engines and the rooms as they were, and
\* answered socket c alone with an error or an invalid_move
RejectedTo(c) ==
    /\ ~crashed'
    /\ engines' = engines
    /\ rooms' = rooms
    /\ Len(out'.events) = 1
    /\ out'.events[1].kind = "sock"
    /\ out'.events[1].id = c
    /\ out'.events[1].ev \in {"error", "invalid_move"}

\* C37: a command of another family than the engine running in the sender's
\* room (make_move on a Big Two or Bingo engine, approve_undo on a Bingo
\* engine, cdi_play, cdi_pass or bingo_call on a chess or xiangqi engine) is
\* answered with a rejection to the sender, engine and room are kept, and the
\* handler calls no verb the engine lacks.
C37_ForeignCommandRejected ==
    [][\A c \in DOMAIN sock :
          LET r == sock[c].roomId
          IN  (sock[c].open /\ r \in DOMAIN engines /\ r \in DOMAIN rooms)
              => /\ (/\ engines[r].kind \notin TwoPlayerKinds
                     /\ \E verdict \in MoveVerdicts, after \in PositionKinds :
                           MakeMove(c, verdict, after))
                        => RejectedTo(c)
                 /\ (engines[r].kind = "bingo" /\ ApproveUndo(c)) => RejectedTo(c)
                 /\ (/\ engines[r].kind # "chordaidi"
                     /\ \/ \E verdict \in PlayVerdicts, emptied \in BOOLEAN :
                              CdiPlay(c, verdict, emptied)
                        \/ \E verdict \in PlayVerdicts : CdiPass(c, verdict))
                        => RejectedTo(c)
                 /\ (engines[r].kind # "bingo" /\ \E wins \in BOOLEAN : BingoCall(c, wins))
                        => RejectedTo(c)]_vars

\* a command reached an engine of another family and the process went down
C37_ForeignCommandCrashed == crashed /\ out.ev \in EngineCommands

\* ------------------------------------------------------------------ undo properties

\* C38: the engine's undo() is applied only for an approve_undo sent by the
\* seated opponent of a player whose request_undo is still unanswered: when a
\* room's engine loses a ply, a request of the room is pending and the
\* approve_undo came from the socket the request was passed to, a seat of the
\* room other than the requester's. An approve_undo without a pending
\* request, from the requester or from a spectator leaves the engine as it is.
C38_UndoOnlyWhenAsked ==
    [][\A r \in (DOMAIN engines) \cap (DOMAIN engines') :
          engines'[r].hist < engines[r].hist
            => /\ r \in DOMAIN undoAsked
               /\ out'.ev = "approve_undo"
               /\ out'.by = undoAsked[r].to
               /\ undoAsked[r].to # undoAsked[r].from
               /\ r \in DOMAIN rooms
               /\ SeatedIn(rooms[r], undoAsked[r].to)
               /\ SeatedIn(rooms[r], undoAsked[r].from)]_vars

\* a spectator's approve_undo took a move back though nobody had asked
C38_UndoneUnasked ==
    /\ out.ev = "approve_undo"
    /\ Len(out.events) = 1
    /\ out.events[1].ev = "game_state"
    /\ sock[out.by].color = "spectator"
    /\ undoAsked = << >>

\* ------------------------------------------------------------------ disconnect-grace properties

\* what the callback of timer t emits when it notifies
Notification(t) ==
    <<ToRoom(t.roomId, "player_disconnected", t.playerName, ""),
      ToRoom(t.roomId, "room_update", "", "")>>

\* the room of timer t exists and the seat of its name has no connection
SeatAway(t) ==
    /\ t.roomId \in DOMAIN rooms
    /\ \E i \in 1..Len(rooms[t.roomId].players) :
          /\ rooms[t.roomId].players[i].name = t.playerName
          /\ rooms[t.roomId].players[i].socketId = NoSocket

\* the seat of timer t holds a connection
SeatBack(t) ==
    /\ t.roomId \in DOMAIN rooms
    /\ \E i \in 1..Len(rooms[t.roomId].players) :
          /\ rooms[t.roomId].players[i].name = t.playerName
          /\ rooms[t.roomId].players[i].socketId # NoSocket

\* the 2 s timer that fired last emitted the notification if and only if its
\* seat was away, and nothing otherwise
NotifiedIffAway ==
    out.ev = "grace_timer"
        => /\ out.events \in {Notification(out.by), <<>>}
           /\ out.events = Notification(out.by) <=> SeatAway(out.by)

\* C32 as stated: when the 2 s timer of a disconnect fires, player_disconnected
\* for the seat's name and a room_update are emitted if and only if the room
\* exists and the seat has no connection at that moment; and a seat that a
\* join under the same name reclaimed before the timer fired produces no
\* player_disconnected.
C32_ReclaimedNeverNotified ==
    /\ NotifiedIffAway
    /\ (out.ev = "grace_timer" /\ out.by.reclaimed) => out.events = <<>>

\* C32 amended: ... and a seat that a join under the same name reclaimed
\* before the timer fired, and that still holds a connection when it fires,
\* produces no player_disconnected.
C32_BackNeverNotified ==
    /\ NotifiedIffAway
    /\ (out.ev = "grace_timer" /\ out.by.reclaimed /\ SeatBack(out.by)) => out.events = <<>>

\* C32 witness: the timer of a seat that was left and taken back by name
\* fired and emitted nothing, while the timer of a later disconnect waits
C32_Witness ==
    /\ out.ev = "grace_timer"
    /\ out.by.reclaimed
    /\ SeatBack(out.by)
    /\ out.events = <<>>
    /\ graceTimers # <<>>

====
